---- MODULE Spec2Model ----
(***************************************************************************)
(* A model of the simplified (no NTT) Kyber of mpg/menezes-kyber-dilithium: *)
(* kyber_sym.py (XOF, PRF, G, H, J), kyber_math.py (bit/byte packing,       *)
(* compression, KModPol/KVec/KMat), common_math.py (ModInt, ModPol, Vec,    *)
(* Mat), kyber.py (KyberPKE, KyberKEM) and, of math_prereq.py, the generic  *)
(* polynomials Pol that ModPolGen reduces modulo X^n + 1.                   *)
(*                                                                         *)
(* Scale.  The program works on 32-byte seeds and messages and on ring      *)
(* elements of N = 256 = 8 * 32 coefficients.  The model keeps q = 3329 and *)
(* every formula of the code, and scales the byte unit: SeedLen stands for  *)
(* the program's 32, so N = 8 * SeedLen, a serialized ring element has      *)
(* 12 * SeedLen bytes (the program's 384) and a PRF block 2 * SeedLen * eta *)
(* bytes (the program's 64 * eta).                                         *)
(*                                                                         *)
(* hashlib (SHA3-256, SHA3-512, SHAKE128, SHAKE256) is a library outside    *)
(* the repository.  It is modelled by a fixed deterministic byte stream per *)
(* (algorithm, input): digest(l) is the first l bytes of that stream, which *)
(* is the one property of SHAKE the code relies on.                         *)
(*                                                                         *)
(* A byte string is a sequence of integers in 0..255.  The outcome of a     *)
(* call is a record: Ok(v) for a returned value, Err(e) for a raised        *)
(* exception named e.                                                       *)
(*                                                                         *)
(* Specifications.  Spec: one KyberKEM object and any sequence of calls of  *)
(* its operations.  SpecPure: runs that repeat their first call (kept in    *)
(* ref) among other calls.  SpecPRF: one PRF object and its next calls.     *)
(* SpecXOF: one XOF object and its absorb and squeeze calls.  SpecPack,     *)
(* SpecCompress, SpecAlgebra: the functions that keep no state (packing and *)
(* serialization; compress and decompress; the operators of ModInt, ModPol, *)
(* Vec and Mat), each called on drawn inputs and then on its own result.    *)
(***************************************************************************)
EXTENDS Integers, Sequences, FiniteSets, TLC

VARIABLES
  prf,    \* a PRF object: [s |-> seed, b |-> counter]
  xof,    \* an XOF object: [ctx |-> bytes absorbed by the SHAKE128 context, offset |-> n]
  kem,    \* a KyberKEM object (its pke's parameters), or NoObject
  call,   \* the last completed call: [op, args, res] plus per-operation history fields
  ref     \* the first completed call of the run, kept for comparison

vars == <<prf, xof, kem, call, ref>>

\* ---------------------------------------------------------------- bounds

\* The byte unit: stands for the program's 32 (seed, message and hash length).
SeedLen == 1
\* Number of distinct byte patterns the inputs are drawn from.
NumPat == 2
\* Largest length asked of one squeeze, and cap on the total squeezed.
MaxSqueeze == 4
MaxOffset == 9
\* Caps on the absorb calls on one XOF object and on the squeeze calls that
\* follow one absorb.
MaxAbsorb == 2
MaxSqueezeCalls == 4
\* Largest number of cbd_from_prf calls on one PRF.
MaxDraws == 4
\* Largest number n of coefficients asked of the sampling loop run step by step.
MaxCoefs == 4

\* ---------------------------------------------------------------- constants

Q == 3329
N == 8 * SeedLen

\* ---------------------------------------------------------------- outcomes

Ok(v) == [ok |-> TRUE, val |-> v, err |-> ""]
Err(e) == [ok |-> FALSE, val |-> <<>>, err |-> e]

NoCall == [op |-> "none", args |-> <<>>, res |-> Ok(<<>>), aux |-> <<>>]
NoObject == [k |-> 0, eta1 |-> 0, eta2 |-> 0, du |-> 0, dv |-> 0]
NoPRF == [s |-> <<>>, b |-> 0]
NoXOF == [ctx |-> <<>>, offset |-> 0]

\* ---------------------------------------------------------------- sequences

\* The sequence f[1], ..., f[Len(f)] as a tuple whose elements are computed once.
List(f) == SubSeq(f, 1, Len(f))

\* LET v == e IN Body(v), for a value v that Body uses several times: e is
\* written once and computed once, also where TLC keeps no computed value
\* (under ENABLED), and what TLC records per expression (its coverage) grows
\* with the size of the model and not with the number of uses.
Bind(e, Body(_)) == CHOOSE r \in {Body(v) : v \in {e}} : TRUE

\* ---------------------------------------------------------------- inputs

\* The p-th byte pattern of length len: all zero, all 0xff, then mixed bytes.
Pat(len, p) ==
  List([i \in 1..len |-> CASE p = 0 -> 0
                      [] p = 1 -> 255
                      [] OTHER -> (p * 37 + i * (2 * p + 53)) % 256])

ByteStrings(len) == {Pat(len, p) : p \in 0..(NumPat - 1)}

Pow2(e) == 2 ^ e

\* ---------------------------------------------------------------- hashlib

\* A digest of the absorbed bytes, position-sensitive, by binary splitting.
RECURSIVE MixRange(_, _, _)
MixRange(data, lo, hi) ==
  IF lo > hi THEN 0
  ELSE IF lo = hi THEN ((lo * lo + 3 * lo + 1) * (data[lo] + 1)) % 65521
  ELSE LET mid == (lo + hi) \div 2
       IN (MixRange(data, lo, mid) + MixRange(data, mid + 1, hi)) % 65521

Mix(data) == (MixRange(data, 1, Len(data)) + 257 * Len(data) + 1) % 65521

\* Byte j (from 0) of the output stream of algorithm alg on input data.
StreamByte(alg, data, j) ==
  LET st == Mix(data) + 7919 * alg
  IN ((st * (j + 1) * (j + alg + 2) + 101 * j * j + (st \div 251)) \div 7) % 256

HashStream(alg, data, l) == List([i \in 1..l |-> StreamByte(alg, data, i - 1)])

sha3_256(data) == HashStream(1, data, SeedLen)
sha3_512(data) == HashStream(2, data, 2 * SeedLen)
shake_128_digest(data, l) == HashStream(3, data, l)
shake_256_digest(data, l) == HashStream(4, data, l)

\* int.to_bytes(1): one byte, OverflowError outside 0..255
\* (to_bytes_1_wrap: the low byte, never an error).
to_bytes_1_wrap(x) == Ok(<<x % 256>>)
to_bytes_1(x) == IF x \in 0..255 THEN Ok(<<x>>) ELSE Err("OverflowError")

\* ---------------------------------------------------------------- kyber_sym.py

G(c) ==
  LET g == sha3_512(c)
  IN <<SubSeq(g, 1, SeedLen), SubSeq(g, SeedLen + 1, 2 * SeedLen)>>

H(s) == sha3_256(s)

J(s) == shake_256_digest(s, SeedLen)

\* XOF.__init__
XOF_init == [ctx |-> <<>>, offset |-> 0]

\* XOF.absorb: ctx.update(data) appends to what the context holds.
\* (XOF_absorb_keep: the offset stays where the squeezes left it).
XOF_absorb_keep(x, data) == [ctx |-> x.ctx \o data, offset |-> x.offset]
XOF_absorb(x, data) == [ctx |-> x.ctx \o data, offset |-> 0]

\* XOF.squeeze: <<the bytes returned, the object afterwards>>
\* (XOF_squeeze_stuck: the offset stays where it was).
XOF_squeeze_stuck(x, l) ==
  <<SubSeq(shake_128_digest(x.ctx, x.offset + l), x.offset + 1, x.offset + l), x>>
XOF_squeeze(x, l) ==
  <<SubSeq(shake_128_digest(x.ctx, x.offset + l), x.offset + 1, x.offset + l),
    [x EXCEPT !.offset = x.offset + l]>>

\* PRF.__init__
PRF_init(seed) == [s |-> seed, b |-> 0]

\* PRF.next: [res, prf, hashed]: the outcome, the object afterwards and the
\* input given to SHAKE256 (empty when the call raised before hashing)
\* (PRF_next_wrap8: the counter kept in 8 bits, wrapping to 0 after 255).
PRF_next_wrap8(p, eta) ==
  LET bb == to_bytes_1(p.b)
  IN IF ~bb.ok THEN [res |-> bb, prf |-> p, hashed |-> <<>>]
     ELSE [res |-> Ok(shake_256_digest(p.s \o bb.val, 2 * SeedLen * eta)),
           prf |-> [p EXCEPT !.b = (p.b + 1) % 256],
           hashed |-> p.s \o bb.val]
PRF_next(p, eta) ==
  LET bb == to_bytes_1(p.b)
  IN IF ~bb.ok THEN [res |-> bb, prf |-> p, hashed |-> <<>>]
     ELSE [res |-> Ok(shake_256_digest(p.s \o bb.val, 2 * SeedLen * eta)),
           prf |-> [p EXCEPT !.b = p.b + 1],
           hashed |-> p.s \o bb.val]

\* ---------------------------------------------------------------- common_math.py

\* ModInt.__init__: r mod q.
ModInt(r, q) == [r |-> r % q, q |-> q]

\* ModInt.__add__, __sub__, __mul__
\* (ModInt_mul_skew: self.r * other.r + self.r;
\* ModInt_add_other: the sum reduced under other.q).
ModInt_mul_skew(a, b) == ModInt(a.r * b.r + a.r, a.q)
ModInt_add_other(a, b) == ModInt(a.r + b.r, b.q)
ModInt_add(a, b) == ModInt(a.r + b.r, a.q)
ModInt_sub(a, b) == ModInt(a.r - b.r, a.q)
ModInt_mul(a, b) == ModInt(a.r * b.r, a.q)

\* ModInt.rand_uni(q) and ModInt.rand_small_uni(q, eta), given the value that
\* secrets.randbelow returned.
ModInt_rand_uni(q, drawn) == ModInt(drawn, q)
ModInt_rand_small_uni(q, eta, drawn) == ModInt(drawn - eta, q)

Min(a, b) == IF a < b THEN a ELSE b

\* ModInt.size: min(r, q - r)
\* (ModInt_size_r: the representative r itself).
ModInt_size_r(a) == a.r
ModInt_size(a) == Min(a.r, a.q - a.r)

\* max(...) of a non-empty list of integers.
RECURSIVE MaxOf(_)
MaxOf(xs) ==
  IF Len(xs) = 1 THEN xs[1]
  ELSE IF xs[1] >= MaxOf(Tail(xs)) THEN xs[1] ELSE MaxOf(Tail(xs))

\* ModPol.__init__ raises ValueError on a wrong number of coefficients.
ModPol_init_raises(q, n, c) == Len(c) # n \/ n = 0
ModPol(q, n, c) == [q |-> q, n |-> n, c |-> c]

\* ModPol.__add__ and __sub__: coefficient-wise over zip(self.c, other.c).
ModPol_add(f, g) ==
  ModPol(f.q, f.n, List([i \in 1..Min(Len(f.c), Len(g.c)) |-> ModInt_add(f.c[i], g.c[i])]))
ModPol_sub(f, g) ==
  ModPol(f.q, f.n, List([i \in 1..Min(Len(f.c), Len(g.c)) |-> ModInt_sub(f.c[i], g.c[i])]))

\* ModPol.size: max((c.size() for c in self.c)).
ModPol_size(f) == MaxOf(List([i \in 1..Len(f.c) |-> ModInt_size(f.c[i])]))

\* (ModPol_mul_j_cyclic: reduction modulo X^n - 1, the wrapped terms added.)
RECURSIVE ModPol_mul_j_cyclic(_, _, _, _, _, _)
ModPol_mul_j_cyclic(c, n, a, i, oc, j) ==
  IF j >= Len(oc) \/ Len(c) # n THEN c
  ELSE ModPol_mul_j_cyclic(
         [c EXCEPT ![((i + j) % n) + 1] = ModInt_add(@, ModInt_mul(a, oc[j + 1]))],
         n, a, i, oc, j + 1)

\* ModPol.__mul__, inner loop: for j, b in enumerate(other.c), with i and a
\* fixed; indices i, j count from 0 as in the code, sequences from 1.  The
\* list c keeps its n entries throughout (Len(c) = n is tested only so that c
\* is computed at every step and not as one nested expression at the end).
RECURSIVE ModPol_mul_j(_, _, _, _, _, _)
ModPol_mul_j(c, n, a, i, oc, j) ==
  IF j >= Len(oc) \/ Len(c) # n THEN c
  ELSE LET p == ModInt_mul(a, oc[j + 1])
           k == i + j
           c1 == IF k >= n
                 THEN [c EXCEPT ![k - n + 1] = ModInt_sub(c[k - n + 1], p)]
                 ELSE [c EXCEPT ![k + 1] = ModInt_add(c[k + 1], p)]
       IN ModPol_mul_j(c1, n, a, i, oc, j + 1)

\* ModPol.__mul__, outer loop: for i, a in enumerate(self.c).
RECURSIVE ModPol_mul_i(_, _, _, _, _)
ModPol_mul_i(c, n, sc, oc, i) ==
  IF i >= Len(sc) \/ Len(c) # n THEN c
  ELSE ModPol_mul_i(ModPol_mul_j(c, n, sc[i + 1], i, oc, 0), n, sc, oc, i + 1)

ModPol_mul(f, g) ==
  ModPol(f.q, f.n,
         ModPol_mul_i(List([i \in 1..f.n |-> ModInt(0, f.q)]), f.n, f.c, g.c, 0))

\* Vec: a sequence of ModPol; Vec.__init__ raises ValueError on an empty list.
Vec_init_raises(v) == Len(v) = 0

Vec_add(a, b) == List([i \in 1..Min(Len(a), Len(b)) |-> ModPol_add(a[i], b[i])])
Vec_sub(a, b) == List([i \in 1..Min(Len(a), Len(b)) |-> ModPol_sub(a[i], b[i])])

\* Vec.__mul__: sum((a * b for a, b in zip(self.v, other.v)), start=zero).
RECURSIVE Vec_mul_sum(_, _, _, _)
Vec_mul_sum(acc, a, b, i) ==
  IF i > Min(Len(a), Len(b)) THEN acc
  ELSE Vec_mul_sum(ModPol_add(acc, ModPol_mul(a[i], b[i])), a, b, i + 1)

Vec_mul(a, b) == Vec_mul_sum(ModPol_sub(a[1], a[1]), a, b, 1)

\* Vec.size: max((f.size() for f in self.v)).
Vec_size(v) == MaxOf(List([i \in 1..Len(v) |-> ModPol_size(v[i])]))

\* Mat: a sequence of lines, each a Vec.  Mat.__matmul__ and Mat.transpose.
Mat_matmul(m, vec) == List([i \in 1..Len(m) |-> Vec_mul(m[i], vec)])

\* (Mat_transpose_same: the matrix itself.)
Mat_transpose_same(m) == m
Mat_transpose(m) == List([i \in 1..Len(m[1]) |-> [j \in 1..Len(m) |-> m[j][i]]])

\* ---------------------------------------------------------------- math_prereq.py

\* Pol.__init__ on a list of ModInt: a polynomial [q, c] whose leading
\* coefficient is not 0 (trailing zeros are popped; the 0 polynomial has c = []).
RECURSIVE Pol(_, _)
Pol(q, c) ==
  IF Len(c) # 0 /\ c[Len(c)] = ModInt(0, q) THEN Pol(q, SubSeq(c, 1, Len(c) - 1))
  ELSE [q |-> q, c |-> c]

\* Pol._c_padded(n): the coefficients, then zeros up to n of them.
Pol_c_padded(f, n) ==
  IF n <= Len(f.c) THEN f.c
  ELSE f.c \o List([i \in 1..(n - Len(f.c)) |-> ModInt(0, f.q)])

\* Pol.__sub__.
Pol_sub(f, g) ==
  LET n == IF Len(f.c) > Len(g.c) THEN Len(f.c) ELSE Len(g.c)
  IN Bind(List([i \in 1..n |-> ModInt_sub(Pol_c_padded(f, n)[i], Pol_c_padded(g, n)[i])]),
          LAMBDA c : Pol(f.q, c))

\* Pol.__mul__, inner loop: for j, b in enumerate(other.c): c[i + j] += a * b
\* (Len(c) = len is tested only so that c is computed at every step).
RECURSIVE Pol_mul_j(_, _, _, _, _, _)
Pol_mul_j(c, len, a, i, oc, j) ==
  IF j >= Len(oc) \/ Len(c) # len THEN c
  ELSE Bind([c EXCEPT ![i + j + 1] = ModInt_add(@, ModInt_mul(a, oc[j + 1]))],
            LAMBDA c1 : Pol_mul_j(c1, len, a, i, oc, j + 1))

\* Pol.__mul__, outer loop: for i, a in enumerate(self.c).
RECURSIVE Pol_mul_i(_, _, _, _, _)
Pol_mul_i(c, len, sc, oc, i) ==
  IF i >= Len(sc) \/ Len(c) # len THEN c
  ELSE Bind(Pol_mul_j(c, len, sc[i + 1], i, oc, 0),
            LAMBDA c1 : Pol_mul_i(c1, len, sc, oc, i + 1))

Pol_mul(f, g) ==
  Bind(Pol_mul_i(List([i \in 1..(Len(f.c) + Len(g.c)) |-> ModInt(0, f.q)]),
                 Len(f.c) + Len(g.c), f.c, g.c, 0),
       LAMBDA c : Pol(f.q, c))

\* Pol.deg: -1 for the 0 polynomial.
Pol_deg(f) == Len(f.c) - 1

\* Pol.__mod__, the loop: while r.deg() >= other.deg(), r = r - f * other
\* with f = a X^n, a the leading coefficient of r.
\* (Pol_mod_step_low: a taken as the lowest coefficient of r.)
Pol_mod_step_low(r, other) ==
  LET a == r.c[1]
      n == Pol_deg(r) - Pol_deg(other)
  IN Bind(Pol(r.q, Pol_c_padded(Pol(r.q, <<>>), n) \o <<a>>), LAMBDA f :
       Bind(Pol_mul(f, other), LAMBDA g : Pol_sub(r, g)))
Pol_mod_step(r, other) ==
  LET a == r.c[Len(r.c)]
      n == Pol_deg(r) - Pol_deg(other)
  IN Bind(Pol(r.q, Pol_c_padded(Pol(r.q, <<>>), n) \o <<a>>), LAMBDA f :
       Bind(Pol_mul(f, other), LAMBDA g : Pol_sub(r, g)))

RECURSIVE Pol_mod_loop(_, _)
Pol_mod_loop(r, other) ==
  IF Pol_deg(r) < Pol_deg(other) THEN r
  ELSE Pol_mod_loop(Pol_mod_step(r, other), other)

\* Pol.__mod__, the two raise statements: the error raised, or Ok.
Pol_mod_raises(self, other) ==
  IF Len(other.c) = 0 THEN Err("ZeroDivisionError")
  ELSE IF other.c[Len(other.c)] # ModInt(1, self.q) THEN Err("NotImplementedError")
  ELSE Ok(<<>>)

\* Pol.__mod__: the outcome of self % other.
Pol_mod(self, other) ==
  IF ~Pol_mod_raises(self, other).ok THEN Pol_mod_raises(self, other)
  ELSE Ok(Pol_mod_loop(Pol(self.q, self.c), other))

\* ---------------------------------------------------------------- kyber_math.py

\* ints_from_bits: every complete group of d bits, least significant bit
\* first, makes one integer; an incomplete last group is dropped.
RECURSIVE BitsValue(_, _, _, _)
BitsValue(bits, start, d, t) ==
  IF t >= d THEN 0
  ELSE bits[start + t] * Pow2(t) + BitsValue(bits, start, d, t + 1)

ints_from_bits(d, bits) ==
  List([j \in 1..(Len(bits) \div d) |-> BitsValue(bits, (j - 1) * d + 1, d, 0)])

\* bits_from_ints: the d low bits of every integer, least significant first
\* (bits_from_ints_msb: most significant first).
bits_from_ints_msb(d, ints) ==
  List([i \in 1..(d * Len(ints)) |->
     (ints[((i - 1) \div d) + 1] \div Pow2(d - 1 - ((i - 1) % d))) % 2])
bits_from_ints(d, ints) ==
  List([i \in 1..(d * Len(ints)) |->
     (ints[((i - 1) \div d) + 1] \div Pow2((i - 1) % d)) % 2])

bytes_from_bits(b) == ints_from_bits(8, b)
bits_from_bytes(B) == bits_from_ints(8, B)
bytes_from_ints(d, F) == bytes_from_bits(bits_from_ints(d, F))
ints_from_bytes(d, B) == ints_from_bits(d, bits_from_bytes(B))

\* KModInt.compress: int(0.5 + r * 2**d / q) % 2**d.  The float quotient is
\* never within rounding error of a half-integer for the moduli used, so the
\* result is floor((2 * r * 2^d + q) / (2 * q)) mod 2^d.
\* (compress_floor: int(r * 2**d / q) % 2**d, rounding down).
compress_floor(x, d) == ((x.r * Pow2(d)) \div x.q) % Pow2(d)
compress(x, d) == ((2 * x.r * Pow2(d) + x.q) \div (2 * x.q)) % Pow2(d)

\* KModInt.decompress: KModInt(int(0.5 + y * q / 2**d), q)
\* (decompress_half_down: a half rounded down, as round() does at 0.5).
decompress_half_down(q, y, d) == ModInt((2 * y * q + Pow2(d) - 1) \div Pow2(d + 1), q)
decompress(q, y, d) == ModInt((2 * y * q + Pow2(d)) \div Pow2(d + 1), q)

\* int.bit_length() of a positive integer.
RECURSIVE bit_length(_)
bit_length(x) == IF x <= 0 THEN 0 ELSE 1 + bit_length(x \div 2)

\* KModPol.to_bytes (ByteEncode_12) and KModPol.from_bytes (ByteDecode_12)
\* (KModPol_to_bytes_11: 11 bits per coefficient).
KModPol_to_bytes_11(f) ==
  IF bit_length(f.q) # 12 \/ f.n % 8 # 0 THEN Err("NotImplementedError")
  ELSE Ok(bytes_from_ints(11, List([i \in 1..Len(f.c) |-> f.c[i].r])))
KModPol_to_bytes(f) ==
  IF bit_length(f.q) # 12 \/ f.n % 8 # 0 THEN Err("NotImplementedError")
  ELSE Ok(bytes_from_ints(12, List([i \in 1..Len(f.c) |-> f.c[i].r])))

KModPol_from_bytes(B) ==
  Bind(ints_from_bytes(12, B), LAMBDA c :
    IF ModPol_init_raises(Q, N, c) THEN Err("ValueError")
    ELSE Ok(ModPol(Q, N, List([i \in 1..Len(c) |-> ModInt(c[i], Q)]))))

\* KModPol.compress_to_bytes and KModPol.decompress_from_bytes.
KModPol_compress_to_bytes(f, d) ==
  bytes_from_ints(d, List([i \in 1..Len(f.c) |-> compress(f.c[i], d)]))

KModPol_decompress_from_bytes(d, B) ==
  Bind(ints_from_bytes(d, B), LAMBDA c :
    IF ModPol_init_raises(Q, N, c) THEN Err("ValueError")
    ELSE Ok(ModPol(Q, N, List([i \in 1..Len(c) |-> decompress(Q, c[i], d)]))))

\* B[i : i + size] for i in range(0, len(B), size).
Chunks(B, size) ==
  List([j \in 1..((Len(B) + size - 1) \div size) |->
     SubSeq(B, (j - 1) * size + 1, Min(j * size, Len(B)))])

\* The outcomes of a list of calls: the first error, or the list of values.
AllOk(rs) == \A i \in 1..Len(rs) : rs[i].ok
FirstErr(rs) == rs[CHOOSE i \in 1..Len(rs) : ~rs[i].ok /\ \A j \in 1..(i - 1) : rs[j].ok]
Collect(rs) == IF AllOk(rs) THEN Ok(List([i \in 1..Len(rs) |-> rs[i].val])) ELSE FirstErr(rs)

\* Vec.__init__ on the outcome of the list of items.
Vec_init(rs) == IF rs.ok /\ Vec_init_raises(rs.val) THEN Err("ValueError") ELSE rs

RECURSIVE Concat(_)
Concat(ss) == IF Len(ss) = 0 THEN <<>> ELSE Head(ss) \o Concat(Tail(ss))

\* KVec.to_bytes, from_bytes, compress_to_bytes, decompress_from_bytes.
\* 12 * SeedLen is the program's size = 12 * 32, d * SeedLen its d * 32.
KVec_to_bytes(v) ==
  Bind(List([i \in 1..Len(v) |-> KModPol_to_bytes(v[i])]), LAMBDA rs :
    IF AllOk(rs) THEN Ok(Concat(List([i \in 1..Len(rs) |-> rs[i].val]))) ELSE FirstErr(rs))

KVec_from_bytes(B) ==
  Bind(Chunks(B, 12 * SeedLen), LAMBDA chunks :
    Vec_init(Collect(List([i \in 1..Len(chunks) |-> KModPol_from_bytes(chunks[i])]))))

KVec_compress_to_bytes(v, d) ==
  Concat(List([i \in 1..Len(v) |-> KModPol_compress_to_bytes(v[i], d)]))

KVec_decompress_from_bytes(d, B) ==
  Bind(Chunks(B, d * SeedLen), LAMBDA chunks :
    Vec_init(Collect(List([i \in 1..Len(chunks) |->
                             KModPol_decompress_from_bytes(d, chunks[i])]))))

\* KModInt.cbd_from_bits: sum(bits[:eta]) - sum(bits[eta:]) mod Q.
RECURSIVE SumSeq(_)
SumSeq(xs) == IF Len(xs) = 0 THEN 0 ELSE Head(xs) + SumSeq(Tail(xs))

\* B[lo:hi] of Python for 0 <= lo, 0 <= hi.
Slice(B, lo, hi) == SubSeq(B, lo + 1, Min(hi, Len(B)))
SliceFrom(B, lo) == SubSeq(B, lo + 1, Len(B))

\* (cbd_from_bits_swapped: the two halves exchanged.)
cbd_from_bits_swapped(eta, bits) ==
  ModInt(SumSeq(SliceFrom(bits, eta)) - SumSeq(Slice(bits, 0, eta)), Q)
cbd_from_bits(eta, bits) ==
  ModInt(SumSeq(Slice(bits, 0, eta)) - SumSeq(SliceFrom(bits, eta)), Q)

\* [KModInt.cbd_from_bits(eta, bits[i : i + 2 * eta]) for i in range(0, len(bits), 2 * eta)]
cbd_coefficients(eta, bits) ==
  List([j \in 1..((Len(bits) + 2 * eta - 1) \div (2 * eta)) |->
     cbd_from_bits(eta, Slice(bits, (j - 1) * 2 * eta, j * 2 * eta))])

\* KModPol.cbd_from_prf: [res, prf]: the outcome and the PRF afterwards.
KModPol_cbd_from_prf(eta, p) ==
  Bind(PRF_next(p, eta), LAMBDA nx :
    IF ~nx.res.ok THEN [res |-> nx.res, prf |-> nx.prf]
    ELSE IF Len(nx.res.val) # 2 * SeedLen * eta
         THEN [res |-> Err("AssertionError"), prf |-> nx.prf]
    ELSE Bind(cbd_coefficients(eta, bits_from_bytes(nx.res.val)), LAMBDA c :
           IF ModPol_init_raises(Q, N, c) THEN [res |-> Err("ValueError"), prf |-> nx.prf]
           ELSE [res |-> Ok(ModPol(Q, N, c)), prf |-> nx.prf]))

\* KVec.cbd_from_prf: k draws in a row from the same PRF.
RECURSIVE KVec_cbd_loop(_, _, _, _)
KVec_cbd_loop(v, k, eta, p) ==
  IF Len(v) >= k
  THEN [res |-> IF Vec_init_raises(v) THEN Err("ValueError") ELSE Ok(v), prf |-> p]
  ELSE Bind(KModPol_cbd_from_prf(eta, p), LAMBDA x :
         IF ~x.res.ok THEN x
         ELSE KVec_cbd_loop(Append(v, x.res.val), k, eta, x.prf))

KVec_cbd_from_prf(k, eta, p) == KVec_cbd_loop(<<>>, k, eta, p)

\* KModPol.uni_from_seed, the body of the loop on the 3 bytes C squeezed:
\* the list a after d1, d2 = ints_from_bytes(12, C) and the two tests
\* (uni_body_overfull: d2 appended without the test len(a) < n).
uni_body_overfull(a, q, n, C) ==
  Bind(ints_from_bytes(12, C), LAMBDA dd :
    LET a1 == IF dd[1] < q THEN Append(a, ModInt(dd[1], q)) ELSE a
    IN IF dd[2] < q THEN Append(a1, ModInt(dd[2], q)) ELSE a1)
uni_body(a, q, n, C) ==
  Bind(ints_from_bytes(12, C), LAMBDA dd :
    LET a1 == IF dd[1] < q THEN Append(a, ModInt(dd[1], q)) ELSE a
    IN IF dd[2] < q /\ Len(a1) < n THEN Append(a1, ModInt(dd[2], q)) ELSE a1)

\* KModPol.uni_from_seed, the loop: while len(a) < n.  ctx is the XOF.
RECURSIVE uni_loop(_, _, _, _)
uni_loop(a, q, n, ctx) ==
  IF Len(a) >= n THEN [a |-> a, xof |-> ctx]
  ELSE Bind(XOF_squeeze(ctx, 3), LAMBDA sq :
         uni_loop(uni_body(a, q, n, sq[1]), q, n, sq[2]))

\* XOF(): a new context for every call
\* (XOF_new_shared: the XOF object an earlier call left behind).
XOF_new_shared == xof
XOF_new == XOF_init

\* KModPol.uni_from_seed: [res, xof]: the outcome and the XOF it used.
KModPol_uni_from_seed(q, n, B) ==
  IF bit_length(q) # 12 THEN [res |-> Err("NotImplementedError"), xof |-> xof]
  ELSE Bind(uni_loop(<<>>, q, n, XOF_absorb(XOF_new, B)), LAMBDA r :
         [res |-> IF ModPol_init_raises(q, n, r.a) THEN Err("ValueError")
                  ELSE Ok(ModPol(q, n, r.a)),
          xof |-> r.xof])

\* math_prereq.ModPol.from_seed (its XOF class is the one of kyber_sym.py, line
\* for line), the loop: d1 and d2 are computed from the bytes C[0], C[1], C[2]
\* and the list a holds integers.
RECURSIVE from_seed_loop(_, _, _, _)
from_seed_loop(a, q, n, ctx) ==
  IF Len(a) >= n THEN a
  ELSE LET sq == XOF_squeeze(ctx, 3)
           C == sq[1]
           d1 == C[1] + 256 * (C[2] % 16)
           d2 == (C[2] \div 16) + 16 * C[3]
           a1 == IF d1 < q THEN Append(a, d1) ELSE a
           a2 == IF d2 < q /\ Len(a1) < n THEN Append(a1, d2) ELSE a1
       IN from_seed_loop(a2, q, n, sq[2])

\* math_prereq.ModPol.from_seed(q, n, B): the outcome; ModPol.__init__ turns
\* the integers into ModInt.
ModPol_from_seed(q, n, B) ==
  IF bit_length(q) # 12 THEN Err("NotImplementedError")
  ELSE LET a == from_seed_loop(<<>>, q, n, XOF_absorb(XOF_init, B))
       IN IF Len(a) # n \/ n = 0 THEN Err("ValueError")
          ELSE Ok(ModPol(q, n, List([i \in 1..n |-> ModInt(a[i], q)])))

\* KMat.uni_from_seed(q, n, k, rho): entry (i, j) from rho || byte(j) || byte(i);
\* cells are numbered i * k + j, in the order of the two loops.
RECURSIVE KMat_uni_cells(_, _, _, _, _, _)
KMat_uni_cells(cells, q, n, k, rho, x) ==
  IF Len(cells) >= k * k THEN [res |-> Ok(cells), xof |-> x]
  ELSE LET jb == to_bytes_1(Len(cells) % k)
           ib == to_bytes_1(Len(cells) \div k)
       IN IF ~jb.ok THEN [res |-> jb, xof |-> x]
          ELSE IF ~ib.ok THEN [res |-> ib, xof |-> x]
          ELSE Bind(KModPol_uni_from_seed(q, n, rho \o jb.val \o ib.val), LAMBDA a_ij :
                 IF ~a_ij.res.ok THEN a_ij
                 ELSE KMat_uni_cells(Append(cells, a_ij.res.val), q, n, k, rho, a_ij.xof))

KMat_uni_from_seed(q, n, k, rho) ==
  Bind(KMat_uni_cells(<<>>, q, n, k, rho, xof), LAMBDA r :
    IF ~r.res.ok THEN r
    ELSE IF k = 0 THEN [res |-> Err("ValueError"), xof |-> r.xof]
    ELSE [res |-> Ok(List([i \in 1..k |-> [j \in 1..k |-> r.res.val[(i - 1) * k + j]]])),
          xof |-> r.xof])

\* A call KMat.uni_from_seed(*args): the classmethod takes (q, n, k, rho), and
\* Python raises TypeError when the number of positional arguments differs.
KMat_uni_from_seed_call(args) ==
  IF Len(args) # 4 THEN [res |-> Err("TypeError"), xof |-> xof]
  ELSE KMat_uni_from_seed(args[1], args[2], args[3], args[4])

\* ---------------------------------------------------------------- kyber.py

\* KyberPKE.__init__ (KyberKEM.__init__ wraps it): the parameters of the set
\* (KyberPKE_init_default: any other set taken as 768).
KyberPKE_init_default(param_set) ==
  CASE param_set = 512 -> Ok([k |-> 2, eta1 |-> 3, eta2 |-> 2, du |-> 10, dv |-> 4])
    [] param_set = 1024 -> Ok([k |-> 4, eta1 |-> 2, eta2 |-> 2, du |-> 11, dv |-> 5])
    [] OTHER -> Ok([k |-> 3, eta1 |-> 2, eta2 |-> 2, du |-> 10, dv |-> 4])
KyberPKE_init(param_set) ==
  CASE param_set = 512 -> Ok([k |-> 2, eta1 |-> 3, eta2 |-> 2, du |-> 10, dv |-> 4])
    [] param_set = 768 -> Ok([k |-> 3, eta1 |-> 2, eta2 |-> 2, du |-> 10, dv |-> 4])
    [] param_set = 1024 -> Ok([k |-> 4, eta1 |-> 2, eta2 |-> 2, du |-> 11, dv |-> 5])
    [] OTHER -> Err("ValueError")

\* Byte lengths; 12 * SeedLen is the program's 384 and SeedLen its 32.
EkLen(self) == 12 * SeedLen * self.k + SeedLen
DkPkeLen(self) == 12 * SeedLen * self.k
CtLen(self) == SeedLen * (self.du * self.k + self.dv)
DkLen(self) == 24 * SeedLen * self.k + 3 * SeedLen

\* The outcome of an operation with the PRF and the XOF it leaves behind.
Out(res, p, x) == [res |-> res, prf |-> p, xof |-> x]

\* KyberPKE.keygen(d).
KyberPKE_keygen(self, d) ==
  Bind(to_bytes_1(self.k), LAMBDA kb :
  IF ~kb.ok THEN Out(kb, prf, xof) ELSE
  Bind(G(d \o kb.val), LAMBDA g :
  Bind(KMat_uni_from_seed_call(<<self.k, g[1]>>), LAMBDA A :
  IF ~A.res.ok THEN Out(A.res, PRF_init(g[2]), A.xof) ELSE
  Bind(KVec_cbd_from_prf(self.k, self.eta1, PRF_init(g[2])), LAMBDA s :
  IF ~s.res.ok THEN Out(s.res, s.prf, A.xof) ELSE
  Bind(KVec_cbd_from_prf(self.k, self.eta2, s.prf), LAMBDA e :
  IF ~e.res.ok THEN Out(e.res, e.prf, A.xof) ELSE
  Bind(KVec_to_bytes(Vec_add(Mat_matmul(A.res.val, s.res.val), e.res.val)), LAMBDA tb :
  IF ~tb.ok THEN Out(tb, e.prf, A.xof) ELSE
  Bind(KVec_to_bytes(s.res.val), LAMBDA sb :
  IF ~sb.ok THEN Out(sb, e.prf, A.xof) ELSE
  Out(Ok(<<tb.val \o g[1], sb.val>>), e.prf, A.xof))))))))

\* KyberPKE.encrypt(ek_pke, m, r).
KyberPKE_encrypt(self, ek_pke, m, r) ==
  Bind(KVec_from_bytes(Slice(ek_pke, 0, 12 * SeedLen * self.k)), LAMBDA t :
  IF ~t.ok THEN Out(t, prf, xof) ELSE
  Bind(KMat_uni_from_seed_call(<<self.k, SliceFrom(ek_pke, 12 * SeedLen * self.k)>>), LAMBDA A :
  IF ~A.res.ok THEN Out(A.res, prf, A.xof) ELSE
  Bind(KVec_cbd_from_prf(self.k, self.eta1, PRF_init(r)), LAMBDA rv :
  IF ~rv.res.ok THEN Out(rv.res, rv.prf, A.xof) ELSE
  Bind(KVec_cbd_from_prf(self.k, self.eta2, rv.prf), LAMBDA e1 :
  IF ~e1.res.ok THEN Out(e1.res, e1.prf, A.xof) ELSE
  Bind(KModPol_cbd_from_prf(self.eta2, e1.prf), LAMBDA e2 :
  IF ~e2.res.ok THEN Out(e2.res, e2.prf, A.xof) ELSE
  Bind(KModPol_decompress_from_bytes(1, m), LAMBDA mu :
  IF ~mu.ok THEN Out(mu, e2.prf, A.xof) ELSE
  Out(Ok(KVec_compress_to_bytes(
           Vec_add(Mat_matmul(Mat_transpose(A.res.val), rv.res.val), e1.res.val), self.du)
         \o KModPol_compress_to_bytes(
              ModPol_add(ModPol_add(Vec_mul(t.val, rv.res.val), e2.res.val), mu.val),
              self.dv)),
      e2.prf, A.xof)))))))

\* KyberPKE.decrypt(dk_pke, c).
KyberPKE_decrypt(self, dk_pke, c) ==
  Bind(KVec_decompress_from_bytes(self.du, Slice(c, 0, SeedLen * self.du * self.k)), LAMBDA ud :
  IF ~ud.ok THEN Out(ud, prf, xof) ELSE
  Bind(KModPol_decompress_from_bytes(self.dv, SliceFrom(c, SeedLen * self.du * self.k)), LAMBDA vd :
  IF ~vd.ok THEN Out(vd, prf, xof) ELSE
  Bind(KVec_from_bytes(dk_pke), LAMBDA s :
  IF ~s.ok THEN Out(s, prf, xof) ELSE
  Out(Ok(KModPol_compress_to_bytes(ModPol_sub(vd.val, Vec_mul(s.val, ud.val)), 1)), prf, xof))))

\* KyberKEM.keygen_internal(d, z).
KyberKEM_keygen_internal(self, d, z) ==
  Bind(KyberPKE_keygen(self, d), LAMBDA kp :
    IF ~kp.res.ok THEN kp
    ELSE Bind(kp.res.val[1], LAMBDA ek :
           Out(Ok(<<ek, kp.res.val[2] \o ek \o H(ek) \o z>>), kp.prf, kp.xof)))

\* KyberKEM.encaps_internal(ek, m): (K, c).
KyberKEM_encaps_internal(self, ek, m) ==
  Bind(G(m \o H(ek)), LAMBDA g :
    Bind(KyberPKE_encrypt(self, ek, m, g[2]), LAMBDA c :
      IF ~c.res.ok THEN c
      ELSE Out(Ok(<<g[1], c.res.val>>), c.prf, c.xof)))

\* KyberKEM.decaps_internal(dk, c); 12 * SeedLen * k is the program's 384 * k.
decaps_slices(self, dk) ==
  LET k == self.k
  IN [dk_pke |-> Slice(dk, 0, 12 * SeedLen * k),
      ek_pke |-> Slice(dk, 12 * SeedLen * k, 24 * SeedLen * k + SeedLen),
      h |-> Slice(dk, 24 * SeedLen * k + SeedLen, 24 * SeedLen * k + 2 * SeedLen),
      z |-> Slice(dk, 24 * SeedLen * k + 2 * SeedLen, 24 * SeedLen * k + 3 * SeedLen)]

KyberKEM_decaps_internal(self, dk, c) ==
  LET dk_pke == decaps_slices(self, dk).dk_pke
      ek_pke == decaps_slices(self, dk).ek_pke
      h == decaps_slices(self, dk).h
      z == decaps_slices(self, dk).z
  IN Bind(KyberPKE_decrypt(self, dk_pke, c), LAMBDA m_prime :
     IF ~m_prime.res.ok THEN m_prime ELSE
     Bind(G(m_prime.res.val \o h), LAMBDA g :
     Bind(KyberPKE_encrypt(self, ek_pke, m_prime.res.val, g[2]), LAMBDA c_prime :
     IF ~c_prime.res.ok THEN c_prime
     ELSE IF c_prime.res.val # c THEN Out(Ok(J(z \o c)), c_prime.prf, c_prime.xof)
     ELSE Out(Ok(g[1]), c_prime.prf, c_prime.xof))))

\* ================================================================ Spec
\* One KyberKEM object (with its KyberPKE) of some parameter set, and every
\* sequence of calls of its operations on inputs of the expected lengths.

ParamSets == {512, 768, 1024}

Seeds == ByteStrings(SeedLen)

\* The values of eta1 and eta2 over the parameter sets.
EtaSet == {2, 3}

Init ==
  /\ \E ps \in ParamSets : kem = KyberPKE_init(ps).val
  /\ call = NoCall
  /\ prf = NoPRF
  /\ xof = NoXOF
  /\ ref = NoCall

\* A call returns: the outcome is recorded with the operation, its arguments
\* and the bytes drawn from secrets; the PRF and XOF are as the call left them.
Outcome(op, args, out, drawn) ==
  /\ call' = [op |-> op, args |-> args, res |-> out.res, aux |-> drawn]
  /\ prf' = out.prf
  /\ xof' = out.xof
  /\ UNCHANGED kem

Return(op, args, out, drawn) == Outcome(op, args, out, drawn) /\ UNCHANGED ref

PKEKeygen(d) == Return("KyberPKE.keygen", <<d>>, KyberPKE_keygen(kem, d), <<>>)

PKEEncrypt(ek_pke, m, r) ==
  Return("KyberPKE.encrypt", <<ek_pke, m, r>>, KyberPKE_encrypt(kem, ek_pke, m, r), <<>>)

PKEDecrypt(dk_pke, c) ==
  Return("KyberPKE.decrypt", <<dk_pke, c>>, KyberPKE_decrypt(kem, dk_pke, c), <<>>)

KEMKeygenInternal(d, z) ==
  Return("KyberKEM.keygen_internal", <<d, z>>, KyberKEM_keygen_internal(kem, d, z), <<>>)

KEMEncapsInternal(ek, m) ==
  Return("KyberKEM.encaps_internal", <<ek, m>>, KyberKEM_encaps_internal(kem, ek, m), <<>>)

KEMDecapsInternal(dk, c) ==
  Return("KyberKEM.decaps_internal", <<dk, c>>, KyberKEM_decaps_internal(kem, dk, c), <<>>)

\* KyberKEM.keygen(): d and z are secrets.token_bytes(32).
KEMKeygen ==
  \E d \in Seeds, z \in Seeds :
    Return("KyberKEM.keygen", <<>>, KyberKEM_keygen_internal(kem, d, z), <<d, z>>)

\* KyberKEM.encaps(ek): m is secrets.token_bytes(32).
KEMEncaps(ek) ==
  \E m \in Seeds :
    Return("KyberKEM.encaps", <<ek>>, KyberKEM_encaps_internal(kem, ek, m), <<m>>)

KEMDecaps(dk, c) ==
  Return("KyberKEM.decaps", <<dk, c>>, KyberKEM_decaps_internal(kem, dk, c), <<>>)

Next ==
  \/ \E d \in Seeds : PKEKeygen(d)
  \/ \E ek \in ByteStrings(EkLen(kem)), m \in Seeds, r \in Seeds : PKEEncrypt(ek, m, r)
  \/ \E dk \in ByteStrings(DkPkeLen(kem)), c \in ByteStrings(CtLen(kem)) : PKEDecrypt(dk, c)
  \/ \E d \in Seeds, z \in Seeds : KEMKeygenInternal(d, z)
  \/ \E ek \in ByteStrings(EkLen(kem)), m \in Seeds : KEMEncapsInternal(ek, m)
  \/ \E dk \in ByteStrings(DkLen(kem)), c \in ByteStrings(CtLen(kem)) : KEMDecapsInternal(dk, c)
  \/ KEMKeygen
  \/ \E ek \in ByteStrings(EkLen(kem)) : KEMEncaps(ek)
  \/ \E dk \in ByteStrings(DkLen(kem)), c \in ByteStrings(CtLen(kem)) : KEMDecaps(dk, c)

Spec == Init /\ [][Next]_vars

\* C1: after keygen_internal(d, z) has returned (ek, dk), for every m
\* encaps_internal(ek, m) returns (K, c) and decaps_internal(dk, c) returns K.
MLKEMCorrectness ==
  call.op = "KyberKEM.keygen_internal" =>
    /\ call.res.ok
    /\ \A m \in Seeds :
         LET enc == KyberKEM_encaps_internal(kem, call.res.val[1], m)
             dec == KyberKEM_decaps_internal(kem, call.res.val[2], enc.res.val[2])
         IN enc.res.ok /\ dec.res.ok /\ dec.res.val = enc.res.val[1]

\* C2: after KyberPKE.keygen(d) has returned (ek, dk), for every m and r
\* decrypt(dk, encrypt(ek, m, r)) is m.
KPKERoundTrip ==
  call.op = "KyberPKE.keygen" =>
    /\ call.res.ok
    /\ \A m \in Seeds, r \in Seeds :
         LET c == KyberPKE_encrypt(kem, call.res.val[1], m, r)
             mm == KyberPKE_decrypt(kem, call.res.val[2], c.res.val)
         IN c.res.ok /\ mm.res.ok /\ mm.res.val = m

\* C3: decaps_internal(dk, c) returns a key, which is K' exactly when the
\* re-encryption c' of m' equals c and J(z || c) otherwise, where
\* m' = decrypt(dk_pke, c), (K', r') = G(m' || h), c' = encrypt(ek_pke, m', r').
FOCheck ==
  call.op = "KyberKEM.decaps_internal" =>
    LET dk == call.args[1]
        c == call.args[2]
        k == kem.k
        m_prime == KyberPKE_decrypt(kem, Slice(dk, 0, 12 * SeedLen * k), c)
        h == Slice(dk, 24 * SeedLen * k + SeedLen, 24 * SeedLen * k + 2 * SeedLen)
        z == SliceFrom(dk, 24 * SeedLen * k + 2 * SeedLen)
        g == G(m_prime.res.val \o h)
        c_prime == KyberPKE_encrypt(kem, Slice(dk, 12 * SeedLen * k, 24 * SeedLen * k + SeedLen),
                                    m_prime.res.val, g[2])
    IN /\ call.res.ok
       /\ c_prime.res.ok
       /\ c_prime.res.val = c => call.res.val = g[1]
       /\ c_prime.res.val # c => call.res.val = J(z \o c)

\* C4: after keygen_internal(d, z) has returned (ek, dk), for every m and every
\* ciphertext cx other than the c of encaps_internal(ek, m), among them c with
\* the lowest bit of its first byte flipped, decaps_internal(dk, cx) returns
\* J(z || cx).
ImplicitRejection ==
  call.op = "KyberKEM.keygen_internal" =>
    /\ call.res.ok
    /\ \A m \in Seeds :
         LET enc == KyberKEM_encaps_internal(kem, call.res.val[1], m)
             c == enc.res.val[2]
             flipped == [c EXCEPT ![1] = IF c[1] % 2 = 0 THEN c[1] + 1 ELSE c[1] - 1]
         IN /\ enc.res.ok
            /\ \A cx \in ByteStrings(CtLen(kem)) \cup {flipped} :
                 cx # c =>
                   KyberKEM_decaps_internal(kem, call.res.val[2], cx).res
                     = Ok(J(call.args[2] \o cx))

\* C5: decrypt and decaps_internal return SeedLen bytes (the program's 32), and
\* raise nothing, for every dk and c of the expected lengths.
DecryptNeverFails ==
  /\ call.op = "KyberPKE.decrypt" => call.res.ok /\ Len(call.res.val) = SeedLen
  /\ call.op \in {"KyberKEM.decaps_internal", "KyberKEM.decaps"} =>
       call.res.ok /\ Len(call.res.val) = SeedLen

\* C6: the keys, the ciphertext and the shared key have the lengths of the
\* table: ek 384k+32, dk_pke 384k, dk 768k+96, c 32(du*k+dv), K 32, in units
\* of SeedLen for 32.
OutputSizes ==
  /\ call.op = "KyberPKE.keygen" =>
       /\ call.res.ok
       /\ Len(call.res.val[1]) = 12 * SeedLen * kem.k + SeedLen
       /\ Len(call.res.val[2]) = 12 * SeedLen * kem.k
  /\ call.op \in {"KyberKEM.keygen_internal", "KyberKEM.keygen"} =>
       /\ call.res.ok
       /\ Len(call.res.val[1]) = 12 * SeedLen * kem.k + SeedLen
       /\ Len(call.res.val[2]) = 24 * SeedLen * kem.k + 3 * SeedLen
  /\ call.op = "KyberPKE.encrypt" =>
       /\ call.res.ok
       /\ Len(call.res.val) = SeedLen * (kem.du * kem.k + kem.dv)
  /\ call.op \in {"KyberKEM.encaps_internal", "KyberKEM.encaps"} =>
       /\ call.res.ok
       /\ Len(call.res.val[1]) = SeedLen
       /\ Len(call.res.val[2]) = SeedLen * (kem.du * kem.k + kem.dv)

\* The ring element drawn with eta from the PRF of seed at counter b: CBD of
\* the bits of SHAKE256(seed || byte(b)), and the vector of k of them drawn at
\* counters b0, ..., b0 + k - 1.
DrawAt(seed, b, eta) ==
  ModPol(Q, N, cbd_coefficients(eta, bits_from_bytes(shake_256_digest(seed \o <<b>>,
                                                                      2 * SeedLen * eta))))
DrawVec(seed, b0, k, eta) == List([i \in 1..k |-> DrawAt(seed, b0 + i - 1, eta)])

\* C24: KyberPKE.keygen creates one PRF (of sigma) and makes exactly 2k next
\* calls on it: counters 0..k-1 with eta1 give s, counters k..2k-1 with eta2
\* give e; KyberPKE.encrypt creates one PRF (of r) and makes exactly 2k+1
\* next calls: counters 0..k-1 with eta1 give r, k..2k-1 with eta2 give e1,
\* 2k with eta2 gives e2; the counters used (0 to prf.b - 1, next adding 1
\* after each use) stay in 0..8.
PRFDrawOrder ==
  /\ prf.b \in 0..9
  /\ call.op = "KyberPKE.keygen" =>
       LET k == kem.k
           g == G(call.args[1] \o <<k>>)
           A == KMat_uni_from_seed(Q, N, k, g[1]).res.val
           sv == DrawVec(g[2], 0, k, kem.eta1)
           ev == DrawVec(g[2], k, k, kem.eta2)
       IN /\ call.res.ok
          /\ prf = [s |-> g[2], b |-> 2 * k]
          /\ call.res.val[2] = KVec_to_bytes(sv).val
          /\ call.res.val[1] = KVec_to_bytes(Vec_add(Mat_matmul(A, sv), ev)).val \o g[1]
  /\ call.op = "KyberPKE.encrypt" =>
       LET k == kem.k
           r == call.args[3]
           t == KVec_from_bytes(Slice(call.args[1], 0, 12 * SeedLen * k)).val
           A == KMat_uni_from_seed(Q, N, k, SliceFrom(call.args[1], 12 * SeedLen * k)).res.val
           rv == DrawVec(r, 0, k, kem.eta1)
           e1 == DrawVec(r, k, k, kem.eta2)
           e2 == DrawAt(r, 2 * k, kem.eta2)
           mu == KModPol_decompress_from_bytes(1, call.args[2]).val
       IN /\ call.res.ok
          /\ prf = [s |-> r, b |-> 2 * k + 1]
          /\ call.res.val =
               KVec_compress_to_bytes(Vec_add(Mat_matmul(Mat_transpose(A), rv), e1), kem.du)
                 \o KModPol_compress_to_bytes(
                      ModPol_add(ModPol_add(Vec_mul(t, rv), e2), mu), kem.dv)

\* C25: KyberPKE.keygen and KyberPKE.encrypt obtain from rho, by their call
\* of KMat.uni_from_seed, the k by k matrix over (Q, N) whose entry in row i,
\* column j is uni_from_seed(rho || byte(j) || byte(i)); the call succeeds
\* for every parameter set, and so do keygen and encrypt.
MatrixExpansion ==
  call.op \in {"KyberPKE.keygen", "KyberPKE.encrypt"} =>
    LET k == kem.k
        rho == IF call.op = "KyberPKE.keygen" THEN G(call.args[1] \o <<k>>)[1]
               ELSE SliceFrom(call.args[1], 12 * SeedLen * k)
        A == KMat_uni_from_seed_call(<<k, rho>>).res
    IN /\ call.res.ok
       /\ A.ok
       /\ Len(A.val) = k
       /\ \A i \in 1..k :
            /\ Len(A.val[i]) = k
            /\ \A j \in 1..k :
                 A.val[i][j] = KModPol_uni_from_seed(Q, N, rho \o <<j - 1>> \o <<i - 1>>).res.val

\* C29: KyberKEM.keygen_internal(d, z) returns ek = ek_pke and
\* dk = dk_pke || ek || H(ek) || z for the (ek_pke, dk_pke) of KyberPKE.keygen(d),
\* and the slices that decaps_internal takes of that dk are exactly dk_pke,
\* ek, H(ek) and z, which together are the whole of dk, each byte once; so the
\* h of decaps is the H(ek) that encaps_internal hashes.
DkLayoutRoundTrip ==
  call.op \in {"KyberKEM.keygen_internal", "KyberKEM.keygen"} =>
    /\ call.res.ok
    /\ LET d == IF call.op = "KyberKEM.keygen" THEN call.aux[1] ELSE call.args[1]
           z == IF call.op = "KyberKEM.keygen" THEN call.aux[2] ELSE call.args[2]
           kp == KyberPKE_keygen(kem, d).res
           ek == call.res.val[1]
           dk == call.res.val[2]
           sl == decaps_slices(kem, dk)
       IN /\ kp.ok
          /\ ek = kp.val[1]
          /\ dk = kp.val[2] \o ek \o H(ek) \o z
          /\ sl.dk_pke = kp.val[2]
          /\ sl.ek_pke = ek
          /\ sl.h = H(ek)
          /\ sl.z = z
          /\ sl.dk_pke \o sl.ek_pke \o sl.h \o sl.z = dk
          /\ Len(dk) = DkLen(kem)

\* ================================================================ SpecPure
\* Runs that repeat a call: the first call of the run is kept in ref; after it
\* the run repeats that call on the same arguments and, in between, makes the
\* calls that leave a PRF behind (KyberPKE.keygen, KVec.cbd_from_prf on a new
\* PRF), in any order and any number of times.  KMat.uni_from_seed called
\* with its four arguments leaves an XOF behind when it is the repeated call.

\* Values secrets.randbelow(n) can return: both ends of its range and one more.
RandBelow(n) == {0, 1, n - 1}

Builders == {"KyberPKE.keygen", "KVec.cbd_from_prf"}

InitPure == Init

PureCall(op, args, out, drawn) ==
  /\ ref = NoCall \/ op \in Builders \/ (ref.op = op /\ ref.args = args)
  /\ Outcome(op, args, out, drawn)
  /\ ref' = IF ref = NoCall
            THEN [op |-> op, args |-> args, res |-> out.res, aux |-> drawn]
            ELSE ref

\* KMat.uni_from_seed(q, n, k, rho) called with its four arguments; the XOF
\* of the last entry is the one left behind.
XOFOut(r) == Out(r.res, prf, r.xof)

UniFromSeed(rho) ==
  PureCall("KMat.uni_from_seed", <<Q, N, kem.k, rho>>,
           XOFOut(KMat_uni_from_seed_call(<<Q, N, kem.k, rho>>)), <<>>)

\* KVec.cbd_from_prf(k, eta, PRF(seed)); the PRF is left behind.
PRFOut(r) == Out(r.res, r.prf, xof)

CbdFromPrf(seed, eta) ==
  PureCall("KVec.cbd_from_prf", <<kem.k, eta, seed>>,
           PRFOut(KVec_cbd_from_prf(kem.k, eta, PRF_init(seed))), <<>>)

RandUni(q) ==
  \E drawn \in RandBelow(q) :
    PureCall("ModInt.rand_uni", <<q>>, Out(Ok(ModInt_rand_uni(q, drawn)), prf, xof),
             <<drawn>>)

RandSmallUni(q, eta) ==
  \E drawn \in RandBelow(2 * eta + 1) :
    PureCall("ModInt.rand_small_uni", <<q, eta>>,
             Out(Ok(ModInt_rand_small_uni(q, eta, drawn)), prf, xof), <<drawn>>)

NextPure ==
  \/ \E d \in Seeds : PureCall("KyberPKE.keygen", <<d>>, KyberPKE_keygen(kem, d), <<>>)
  \/ \E ek \in ByteStrings(EkLen(kem)), m \in Seeds, r \in Seeds :
       PureCall("KyberPKE.encrypt", <<ek, m, r>>, KyberPKE_encrypt(kem, ek, m, r), <<>>)
  \/ \E dk \in ByteStrings(DkPkeLen(kem)), c \in ByteStrings(CtLen(kem)) :
       PureCall("KyberPKE.decrypt", <<dk, c>>, KyberPKE_decrypt(kem, dk, c), <<>>)
  \/ \E d \in Seeds, z \in Seeds :
       PureCall("KyberKEM.keygen_internal", <<d, z>>,
                KyberKEM_keygen_internal(kem, d, z), <<>>)
  \/ \E ek \in ByteStrings(EkLen(kem)), m \in Seeds :
       PureCall("KyberKEM.encaps_internal", <<ek, m>>,
                KyberKEM_encaps_internal(kem, ek, m), <<>>)
  \/ \E dk \in ByteStrings(DkLen(kem)), c \in ByteStrings(CtLen(kem)) :
       PureCall("KyberKEM.decaps_internal", <<dk, c>>,
                KyberKEM_decaps_internal(kem, dk, c), <<>>)
  \/ \E d \in Seeds, z \in Seeds :
       PureCall("KyberKEM.keygen", <<>>, KyberKEM_keygen_internal(kem, d, z), <<d, z>>)
  \/ \E ek \in ByteStrings(EkLen(kem)), m \in Seeds :
       PureCall("KyberKEM.encaps", <<ek>>, KyberKEM_encaps_internal(kem, ek, m), <<m>>)
  \/ \E dk \in ByteStrings(DkLen(kem)), c \in ByteStrings(CtLen(kem)) :
       PureCall("KyberKEM.decaps", <<dk, c>>, KyberKEM_decaps_internal(kem, dk, c), <<>>)
  \/ \E rho \in Seeds : UniFromSeed(rho)
  \/ \E seed \in Seeds : CbdFromPrf(seed, kem.eta1)
  \/ RandUni(Q)
  \/ \E eta \in EtaSet : RandSmallUni(Q, eta)

SpecPure == InitPure /\ [][NextPure]_vars

\* The operations that draw from secrets.
TopLevel == {"KyberKEM.keygen", "KyberKEM.encaps"}
Samplers == {"ModInt.rand_uni", "ModInt.rand_small_uni"}

InitPRF ==
  /\ \E seed \in ByteStrings(SeedLen) :
       /\ prf = PRF_init(seed)
       /\ call = [op |-> "PRF", args |-> <<seed>>, res |-> Ok(<<>>),
                  aux |-> [b0 |-> 0, hashed |-> <<>>]]
  /\ xof = NoXOF
  /\ kem = NoObject
  /\ ref = NoCall

\* prf.next(eta); aux keeps the counter at entry and the bytes given to SHAKE256.
PRFNext(eta) ==
  LET r == PRF_next(prf, eta)
  IN /\ prf' = r.prf
     /\ call' = [op |-> "PRF.next", args |-> <<eta>>, res |-> r.res,
                 aux |-> [b0 |-> prf.b, hashed |-> r.hashed]]
     /\ UNCHANGED <<xof, kem, ref>>

NextPRF == \E eta \in EtaSet : PRFNext(eta)

SpecPRF == InitPRF /\ [][NextPRF]_vars

\* C8: a next call succeeds exactly when the counter at entry is in 0..255;
\* a successful call hashes seed || byte(counter at entry) and returns
\* 64*eta bytes (scaled: 2*SeedLen*eta); a failing call hashes nothing and
\* returns no bytes.
PRFOverUseIsError ==
  call.op = "PRF.next" =>
    /\ call.res.ok <=> call.aux.b0 \in 0..255
    /\ call.res.ok =>
         /\ call.aux.hashed = prf.s \o <<call.aux.b0>>
         /\ call.aux.hashed[Len(call.aux.hashed)] \in 0..255
         /\ Len(call.res.val) = 2 * SeedLen * call.args[1]
    /\ ~call.res.ok =>
         /\ call.aux.b0 > 255
         /\ call.aux.hashed = <<>>
         /\ call.res.val = <<>>

\* C8 witness: a call made after the counter left 0..255 has failed.
PRFOverUseWitness ==
  call.op = "PRF.next" /\ ~call.res.ok /\ call.aux.b0 = 256

\* C9 as stated: the counter stays in 0..255 in every reachable state.
PRFCounterBelow256 == prf.b >= 0 /\ prf.b < 256

\* C9 amended: the counter starts at 0, stays in 0..256, never decreases and
\* grows by exactly 1 per successful next (a failing next leaves it alone).
PRFCounterInvariant ==
  /\ prf.b = 0
  /\ [](prf.b \in 0..256)
  /\ [][IF call'.res.ok THEN prf'.b = prf.b + 1 ELSE prf'.b = prf.b]_vars

\* C9 witness: the counter has reached 256 and a call has succeeded on the way.
PRFCounterWitness == prf.b = 256 /\ call.op = "PRF.next" /\ call.res.ok

\* ================================================================ SpecXOF
\* One XOF object and every sequence of absorb and squeeze calls on it.

XOFData == ByteStrings(SeedLen + 2)

InitXOF ==
  /\ xof = XOF_init
  /\ call = [op |-> "XOF", args |-> <<>>, res |-> Ok(<<>>),
             aux |-> [absorbs |-> 0, data |-> <<>>, nsq |-> 0, requested |-> 0,
                      squeezed |-> <<>>, moved |-> FALSE]]
  /\ prf = NoPRF
  /\ kem = NoObject
  /\ ref = NoCall

\* xof.absorb(data); aux restarts the history of the squeezes and keeps in
\* moved whether the offset was past 0 when absorb was called.
XOFAbsorb(data) ==
  /\ call.aux.absorbs < MaxAbsorb
  /\ xof' = XOF_absorb(xof, data)
  /\ call' = [op |-> "XOF.absorb", args |-> <<data>>, res |-> Ok(<<>>),
              aux |-> [absorbs |-> call.aux.absorbs + 1, data |-> data, nsq |-> 0,
                       requested |-> 0, squeezed |-> <<>>, moved |-> xof.offset > 0]]
  /\ UNCHANGED <<prf, kem, ref>>

\* xof.squeeze(l); aux adds l to the total asked for and the chunk to the
\* concatenation of the chunks returned since the last absorb.
XOFSqueeze(l) ==
  /\ call.aux.nsq < MaxSqueezeCalls
  /\ call.aux.requested + l <= MaxOffset
  /\ LET r == XOF_squeeze(xof, l)
     IN /\ xof' = r[2]
        /\ call' = [op |-> "XOF.squeeze", args |-> <<l>>, res |-> Ok(r[1]),
                    aux |-> [call.aux EXCEPT !.nsq = @ + 1,
                                             !.requested = @ + l,
                                             !.squeezed = @ \o r[1]]]
  /\ UNCHANGED <<prf, kem, ref>>

NextXOF ==
  \/ \E data \in XOFData : XOFAbsorb(data)
  \/ \E l \in 0..MaxSqueeze : XOFSqueeze(l)

SpecXOF == InitXOF /\ [][NextXOF]_vars

\* C10: after exactly one absorb(data), each squeeze(l) returns l bytes, the
\* chunks returned so far concatenate to the first l1+...+lm bytes of the
\* SHAKE128 stream of data, and the offset is l1+...+lm.
XOFStreaming ==
  call.aux.absorbs = 1 =>
    /\ call.op = "XOF.squeeze" => Len(call.res.val) = call.args[1]
    /\ call.aux.squeezed = shake_128_digest(call.aux.data, call.aux.requested)
    /\ xof.offset = call.aux.requested

\* C10 witness: three or more squeezes after one absorb, the last of them of
\* two or more bytes starting past the beginning of the stream.
XOFStreamingWitness ==
  /\ call.aux.absorbs = 1
  /\ call.op = "XOF.squeeze"
  /\ call.aux.nsq >= 3
  /\ call.args[1] >= 2
  /\ call.aux.requested > call.args[1] + 1

\* C11: after any absorb, whatever was squeezed before it, the offset is 0
\* and a squeeze(n) returns the first n bytes of the SHAKE128 stream of the
\* bytes absorbed so far (which end with the data just absorbed); the first
\* squeeze(n) after an absorb has returned those n bytes and left offset n.
XOFAbsorbResets ==
  /\ call.op = "XOF.absorb" =>
       /\ xof.offset = 0
       /\ SubSeq(xof.ctx, Len(xof.ctx) - Len(call.aux.data) + 1, Len(xof.ctx)) = call.aux.data
       /\ \A n \in 0..MaxSqueeze : XOF_squeeze(xof, n)[1] = shake_128_digest(xof.ctx, n)
  /\ (call.op = "XOF.squeeze" /\ call.aux.nsq = 1) =>
       /\ call.res.val = shake_128_digest(xof.ctx, call.args[1])
       /\ xof.offset = call.args[1]

\* C11 witness: a second absorb made when the offset was past 0, and after it
\* a first squeeze of 2 or more bytes.
XOFAbsorbResetsWitness ==
  /\ call.op = "XOF.squeeze"
  /\ call.aux.absorbs = 2
  /\ call.aux.moved
  /\ call.aux.nsq = 1
  /\ call.args[1] >= 2

\* ================================================================ SpecPack
\* The packing functions of kyber_math.py on drawn inputs: a list of d-bit
\* integers is encoded and the bytes returned are decoded again; a ring
\* element, or a vector of them, is serialized and read back.  The functions
\* keep nothing from one call to the next, so a run draws its inputs once:
\* its first call is made in the initial state (call = NoCall in Next).

\* The p-th list of len integers in 0..(m - 1): all zero, all m - 1, then mixed.
IntPat(len, m, p) ==
  List([i \in 1..len |-> CASE p = 0 -> 0
                      [] p = 1 -> m - 1
                      [] OTHER -> (p * 1237 + i * (2 * p + 853)) % m])

\* Lists of d-bit integers filling whole bytes: the patterns at the length of
\* a ring element and, for d dividing 8, every list that fills one byte.
IntLists(d) ==
  {IntPat(N, Pow2(d), p) : p \in 0..(NumPat + 3)}
    \cup (IF 8 % d = 0 THEN [1..(8 \div d) -> 0..(Pow2(d) - 1)] ELSE {})

\* Ring elements over (Q, N) and vectors of k of them.
KModPols == {ModPol(Q, N, List([i \in 1..N |-> ModInt(IntPat(N, Q, p)[i], Q)])) : p \in 0..(NumPat + 3)}
KVecs(k) ==
  {List([i \in 1..k |->
      ModPol(Q, N, List([j \in 1..N |-> ModInt(IntPat(N, Q, p + i - 1)[j], Q)]))]) :
     p \in 0..(NumPat + 3)}

InitFunctions ==
  /\ call = NoCall
  /\ prf = NoPRF
  /\ xof = NoXOF
  /\ kem = NoObject
  /\ ref = NoCall

\* The record of a completed call, and what a call of a function that touches
\* no object leaves alone.
Called(op, args, res, aux) == [op |-> op, args |-> args, res |-> res, aux |-> aux]
NoObjectTouched == UNCHANGED <<prf, xof, kem, ref>>

\* bytes_from_ints(d, F).
BytesFromInts(d, F) ==
  /\ call' = Called("bytes_from_ints", <<d, F>>, Ok(bytes_from_ints(d, F)), <<>>)
  /\ NoObjectTouched

\* ints_from_bytes(d, B) on the bytes the last call encoded; aux keeps the
\* list that was encoded.
IntsFromBytes ==
  /\ call.op = "bytes_from_ints"
  /\ call' = Called("ints_from_bytes", <<call.args[1], call.res.val>>,
                    Ok(ints_from_bytes(call.args[1], call.res.val)), call.args[2])
  /\ NoObjectTouched

\* p.to_bytes(), then KModPol.from_bytes on the bytes returned.
PolToBytes(f) ==
  /\ call' = Called("KModPol.to_bytes", <<f>>, KModPol_to_bytes(f), <<>>)
  /\ NoObjectTouched

PolFromBytes ==
  /\ call.op = "KModPol.to_bytes" /\ call.res.ok
  /\ call' = Called("KModPol.from_bytes", <<call.res.val>>,
                    KModPol_from_bytes(call.res.val), call.args[1])
  /\ NoObjectTouched

\* v.to_bytes(), then KVec.from_bytes on the bytes returned.
VecToBytes(v) ==
  /\ call' = Called("KVec.to_bytes", <<v>>, KVec_to_bytes(v), <<>>)
  /\ NoObjectTouched

VecFromBytes ==
  /\ call.op = "KVec.to_bytes" /\ call.res.ok
  /\ call' = Called("KVec.from_bytes", <<call.res.val>>,
                    KVec_from_bytes(call.res.val), call.args[1])
  /\ NoObjectTouched

NextPack ==
  \/ call = NoCall /\ \E d \in 1..12 : \E F \in IntLists(d) : BytesFromInts(d, F)
  \/ IntsFromBytes
  \/ call = NoCall /\ \E f \in KModPols : PolToBytes(f)
  \/ PolFromBytes
  \/ call = NoCall /\ \E k \in {2, 3, 4} : \E v \in KVecs(k) : VecToBytes(v)
  \/ VecFromBytes

SpecPack == InitFunctions /\ [][NextPack]_vars

\* C12: for d in 1..12 and a list F of integers in [0, 2^d) whose d * len(F)
\* bits fill whole bytes, bytes_from_ints(d, F) has len(F) * d / 8 bytes, each
\* in 0..255, and ints_from_bytes(d, .) of those bytes is F.
PackingRoundTrip ==
  /\ call.op = "bytes_from_ints" =>
       /\ 8 * Len(call.res.val) = call.args[1] * Len(call.args[2])
       /\ \A i \in 1..Len(call.res.val) : call.res.val[i] \in 0..255
  /\ call.op = "ints_from_bytes" => call.res = Ok(call.aux)

\* C12 witness: a list of N 12-bit integers, neither all equal nor all below
\* 2^11, has been encoded and decoded.
PackingRoundTripWitness ==
  /\ call.op = "ints_from_bytes"
  /\ call.args[1] = 12
  /\ Len(call.aux) = N
  /\ \E i, j \in 1..N : call.aux[i] # call.aux[j] /\ call.aux[i] >= 2048

\* C13: for a ring element p over (Q, N), p.to_bytes() has 12 * SeedLen bytes
\* (the program's 384) and KModPol.from_bytes of them is p; for a vector v of
\* k such elements, KVec.from_bytes(v.to_bytes()) is v.
ByteEncode12RoundTrip ==
  /\ call.op = "KModPol.to_bytes" => call.res.ok /\ Len(call.res.val) = 12 * SeedLen
  /\ call.op = "KModPol.from_bytes" => call.res = Ok(call.aux)
  /\ call.op = "KVec.to_bytes" =>
       call.res.ok /\ Len(call.res.val) = 12 * SeedLen * Len(call.args[1])
  /\ call.op = "KVec.from_bytes" => call.res = Ok(call.aux)

\* C13 witness: a vector of 3 ring elements, not all the same and with a
\* coefficient of 2^11 or more, has been serialized and read back.
ByteEncode12RoundTripWitness ==
  /\ call.op = "KVec.from_bytes"
  /\ call.res.ok
  /\ Len(call.aux) = 3
  /\ call.aux[1] # call.aux[2]
  /\ \E i \in 1..N : call.aux[1].c[i].r >= 2048

\* ================================================================ SpecCompress
\* KModInt.compress and KModInt.decompress on drawn inputs: every residue r
\* of the modulus and every d up to its bit length is compressed, and the
\* value returned is decompressed; decompress is also called on every y in
\* [0, 2^d).

\* The moduli: the 19 of the tests (kyber_math_test.py) and Q.
Moduli == {19, Q}

\* KModInt(r, q).compress(d).
Compress(r, q, d) ==
  /\ call' = Called("KModInt.compress", <<r, q, d>>, Ok(compress(ModInt(r, q), d)), <<>>)
  /\ NoObjectTouched

\* KModInt.decompress(q, y, d) on a drawn y.
Decompress(q, y, d) ==
  /\ call' = Called("KModInt.decompress", <<q, y, d>>, Ok(decompress(q, y, d)), <<>>)
  /\ NoObjectTouched

\* KModInt.decompress(q, y, d) on the y the last call returned; aux keeps the
\* r that was compressed.
DecompressCompressed ==
  /\ call.op = "KModInt.compress"
  /\ call' = Called("KModInt.decompress", <<call.args[2], call.res.val, call.args[3]>>,
                    Ok(decompress(call.args[2], call.res.val, call.args[3])),
                    <<call.args[1]>>)
  /\ NoObjectTouched

NextCompress ==
  \/ call = NoCall /\ \E q \in Moduli : \E r \in 0..(q - 1), d \in 1..bit_length(q) :
       Compress(r, q, d)
  \/ call = NoCall /\ \E q \in Moduli : \E d \in 1..bit_length(q) :
       \E y \in 0..(Pow2(d) - 1) : Decompress(q, y, d)
  \/ DecompressCompressed

SpecCompress == InitFunctions /\ [][NextCompress]_vars

\* C14: compress(d) of r mod q is the integer t nearest to r * 2^d / q, a half
\* rounded up (2qt <= 2r2^d + q < 2q(t + 1), t the quotient rounded down or
\* the next integer), reduced mod 2^d, so it lies in
\* [0, 2^d); decompress(q, y, d) is the integer t nearest to y * q / 2^d, a
\* half rounded up, reduced mod q; with q = 19 and d = 2, compress(3) = 1,
\* decompress(1) = 5, compress(12) = 3, decompress(3) = 14, compress(17) = 0.
RoundHalfUp ==
  /\ call.op = "KModInt.compress" =>
       LET r == call.args[1]
           q == call.args[2]
           d == call.args[3]
       IN /\ call.res.val \in 0..(Pow2(d) - 1)
          /\ \E t \in {(r * Pow2(d)) \div q, (r * Pow2(d)) \div q + 1} :
               /\ 2 * q * t <= 2 * r * Pow2(d) + q
               /\ 2 * r * Pow2(d) + q < 2 * q * (t + 1)
               /\ call.res.val = t % Pow2(d)
          /\ (q = 19 /\ d = 2 /\ r = 3) => call.res.val = 1
          /\ (q = 19 /\ d = 2 /\ r = 12) => call.res.val = 3
          /\ (q = 19 /\ d = 2 /\ r = 17) => call.res.val = 0
  /\ call.op = "KModInt.decompress" =>
       LET q == call.args[1]
           y == call.args[2]
           d == call.args[3]
       IN /\ call.res.val.q = q
          /\ call.res.val.r \in 0..(q - 1)
          /\ \E t \in {(y * q) \div Pow2(d), (y * q) \div Pow2(d) + 1} :
               /\ Pow2(d + 1) * t <= 2 * y * q + Pow2(d)
               /\ 2 * y * q + Pow2(d) < Pow2(d + 1) * (t + 1)
               /\ call.res.val.r = t % q
          /\ (q = 19 /\ d = 2 /\ y = 1) => call.res.val.r = 5
          /\ (q = 19 /\ d = 2 /\ y = 3) => call.res.val.r = 14

\* C14 witness: decompress on a y that compress returned and for which
\* y * Q / 2^d is exactly a half-integer (y = 2^(d-1)) has rounded it up.
RoundHalfUpWitness ==
  /\ call.op = "KModInt.decompress"
  /\ call.aux # <<>>
  /\ call.args[1] = Q
  /\ call.args[2] = Pow2(call.args[3] - 1)
  /\ call.res.val.r = (Q + 1) \div 2

\* |decompress(q, compress_d(r), d) - r| as a size: the distance modulo q
\* between the value decompressed and the r that was compressed.
CompressionError == ModInt_size(ModInt_sub(call.res.val, ModInt(call.aux[1], call.args[1])))

\* C15: for q = Q, d in 1..11 and every r, decompress(q, compress_d(r), d) is
\* within ceil(q / 2^(d+1)) of r modulo q.
CompressionErrorCeil ==
  (call.op = "KModInt.decompress" /\ call.aux # <<>> /\ call.args[1] = Q
     /\ call.args[3] \in 1..11) =>
    CompressionError <= (Q + Pow2(call.args[3] + 1) - 1) \div Pow2(call.args[3] + 1)

\* C15 witness: the bound is met: with d = 8 an r is off by 7 = ceil(Q / 512)
\* after compress and decompress.
CompressionErrorCeilWitness ==
  /\ call.op = "KModInt.decompress" /\ call.aux # <<>> /\ call.args[1] = Q
  /\ call.args[3] = 8
  /\ CompressionError = 7

\* C16 as stated: for q = Q, d in {1, 4, 5, 10, 11} and every r, the distance
\* is at most the rational q / 2^(d+1): distance * 2^(d+1) <= q.
CompressionErrorExact ==
  (call.op = "KModInt.decompress" /\ call.aux # <<>> /\ call.args[1] = Q
     /\ call.args[3] \in {1, 4, 5, 10, 11}) =>
    CompressionError * Pow2(call.args[3] + 1) <= Q

\* C16 amended: for q = Q, d in {1, 4, 5, 10, 11} and every r, the distance is
\* at most q / 2^(d+1) rounded to the nearest integer, a half rounded up
\* (832, 104, 52, 2, 1): 2 * distance * 2^(d+1) <= 2q + 2^(d+1).
CompressionErrorRounded ==
  (call.op = "KModInt.decompress" /\ call.aux # <<>> /\ call.args[1] = Q
     /\ call.args[3] \in {1, 4, 5, 10, 11}) =>
    /\ 2 * CompressionError * Pow2(call.args[3] + 1) <= 2 * Q + Pow2(call.args[3] + 1)
    /\ CompressionError
         <= CASE call.args[3] = 1 -> 832 [] call.args[3] = 4 -> 104 [] call.args[3] = 5 -> 52
              [] call.args[3] = 10 -> 2 [] OTHER -> 1

\* C16 witness: with d = 10 an r is off by 2 after compress and decompress,
\* more than Q / 2^11.
CompressionErrorRoundedWitness ==
  /\ call.op = "KModInt.decompress" /\ call.aux # <<>> /\ call.args[1] = Q
  /\ call.args[3] = 10
  /\ CompressionError = 2

\* ================================================================ SpecAlgebra
\* The operators of common_math.py on drawn operands: a sum or a product of
\* two ModInt or two ModPol of one ring, then an operand of the same ring
\* added to, or multiplied by, the result.

\* The rings R_q = Z_q[X] / (X^n + 1) of the operands, as <<q, n>>: a small one
\* taken whole, the one of the tests and slides, and the one of Kyber.
Shapes == {<<3, 2>>, <<41, 4>>, <<Q, N>>}

\* Coefficient lists: all of them for q = 3; else patterns, and for q = 41 the
\* operands of the tests: (32, 0, 17, 22), (11, 7, 19, 1), (1, 1, -2, 2),
\* (-2, 0, 2, -1).
CoefLists(q, n) ==
  IF q = 3 THEN [1..n -> 0..2]
  ELSE {IntPat(n, q, p) : p \in 0..(NumPat + 3)}
         \cup (IF q = 41 /\ n = 4
                THEN {<<32, 0, 17, 22>>, <<11, 7, 19, 1>>, <<1, 1, 39, 2>>, <<39, 0, 2, 40>>}
                ELSE {})

ModPols(q, n) ==
  {ModPol(q, n, List([i \in 1..n |-> ModInt(c[i], q)])) : c \in CoefLists(q, n)}

\* ModInt operands: every residue of a small modulus, else both ends and the
\* middle of the range.
ModInts(q) ==
  {ModInt(r, q) : r \in IF q < 8 THEN 0..(q - 1)
                         ELSE {0, 1, 2, q \div 2, q \div 2 + 1, q - 2, q - 1}}

Rings == {ModInts(q) : q \in {7, Q}} \cup {ModPols(sh[1], sh[2]) : sh \in Shapes}

\* a + b and a * b as Python dispatches them on the class of a.
Plus(a, b) == IF "c" \in DOMAIN a THEN ModPol_add(a, b) ELSE ModInt_add(a, b)
Times(a, b) == IF "c" \in DOMAIN a THEN ModPol_mul(a, b) ELSE ModInt_mul(a, b)

\* a + b and a * b on drawn operands.
Add(a, b) ==
  /\ call' = Called("__add__", <<a, b>>, Ok(Plus(a, b)), <<>>)
  /\ NoObjectTouched

Mul(a, b) ==
  /\ call' = Called("__mul__", <<a, b>>, Ok(Times(a, b)), <<>>)
  /\ NoObjectTouched

\* a + r and a * r for the result r of the last call; aux keeps that call
\* (aux is a list: empty after a call on drawn operands).
AddTo(a) ==
  /\ call' = Called("__add__", <<a, call.res.val>>, Ok(Plus(a, call.res.val)),
                    <<[call EXCEPT !.aux = <<>>]>>)
  /\ NoObjectTouched

MulBy(a) ==
  /\ call' = Called("__mul__", <<a, call.res.val>>, Ok(Times(a, call.res.val)),
                    <<[call EXCEPT !.aux = <<>>]>>)
  /\ NoObjectTouched

\* u * v, the inner product of two Vec.
VecMul(u, v) ==
  /\ call' = Called("Vec.__mul__", <<u, v>>, Ok(Vec_mul(u, v)), <<>>)
  /\ NoObjectTouched

\* x.size() for x of class cls.
SizeOf(cls, x) ==
  CASE cls = "ModInt" -> ModInt_size(x)
    [] cls = "ModPol" -> ModPol_size(x)
    [] cls = "Vec" -> Vec_size(x)

\* x.size() on a drawn x, or on the result of the last call (which aux keeps).
Size(cls, x) ==
  /\ call' = Called("size", <<cls, x>>, Ok(SizeOf(cls, x)), <<[call EXCEPT !.aux = <<>>]>>)
  /\ NoObjectTouched

\* Matrices of rows by cols ring elements, all different.
Mats ==
  {[i \in 1..rows |-> [j \in 1..cols |->
      ModPol(41, 4, List([t \in 1..4 |-> ModInt(IntPat(4, 41, p + 4 * i + j)[t], 41)]))]] :
     rows \in 1..4, cols \in 1..4, p \in 0..(NumPat + 3)}

\* m.transpose() on a drawn m, then on the matrix returned; aux keeps m.
Transpose(m) ==
  /\ call' = Called("Mat.transpose", <<m>>, Ok(Mat_transpose(m)), <<>>)
  /\ NoObjectTouched

TransposeBack ==
  /\ call.op = "Mat.transpose" /\ Len(call.aux) = 0
  /\ call' = Called("Mat.transpose", <<call.res.val>>, Ok(Mat_transpose(call.res.val)),
                    <<call.args[1]>>)
  /\ NoObjectTouched

\* a - b as Python dispatches it on the class of a.
Minus(a, b) == IF "c" \in DOMAIN a THEN ModPol_sub(a, b) ELSE ModInt_sub(a, b)

\* Pairs of rings of different moduli: two ModInt rings, or two ModPol rings
\* of the same n.
MixedRings ==
  {<<ModInts(q1), ModInts(q2)>> : q1, q2 \in {7, 41, Q}}
    \cup {<<ModPols(q1, 4), ModPols(q2, 4)>> : q1, q2 \in {17, 41, Q}}

\* a + b, a - b or a * b (o is "+", "-" or "*") on operands whose moduli
\* differ: no operator compares self.q with other.q, so each returns.
MixedModuli(o, a, b) ==
  /\ a.q # b.q
  /\ call' = Called(o, <<a, b>>,
                    Ok(CASE o = "+" -> Plus(a, b) [] o = "-" -> Minus(a, b)
                         [] OTHER -> Times(a, b)),
                    <<>>)
  /\ NoObjectTouched

NextAlgebra ==
  \/ call = NoCall /\ \E R \in Rings : \E a, b \in R : Add(a, b)
  \/ call = NoCall /\ \E R \in Rings : \E a, b \in R : Mul(a, b)
  \/ call.op = "__add__" /\ Len(call.aux) = 0 /\
       \E R \in Rings : call.args[1] \in R /\ \E a \in R : AddTo(a)
  \/ call.op \in {"__add__", "__mul__"} /\ Len(call.aux) = 0 /\
       \E R \in Rings : call.args[1] \in R /\ \E a \in R : MulBy(a)
  \/ call = NoCall /\ \E sh \in Shapes : \E a, b, c \in ModPols(sh[1], sh[2]) :
       VecMul(<<a, b>>, <<b, c>>) \/ VecMul(<<a, b, c>>, <<c, a, b>>)
  \/ call = NoCall /\ \E q \in {7, 41, Q} : \E x \in ModInts(q) : Size("ModInt", x)
  \/ call = NoCall /\ \E sh \in Shapes : \E f \in ModPols(sh[1], sh[2]) : Size("ModPol", f)
  \/ call = NoCall /\ \E sh \in Shapes : \E f, g \in ModPols(sh[1], sh[2]) :
       Size("Vec", <<f, g>>) \/ Size("Vec", <<g, f, g>>)
  \/ call.op \in {"__add__", "__mul__"} /\ Len(call.aux) = 0 /\
       Size(IF "c" \in DOMAIN call.res.val THEN "ModPol" ELSE "ModInt", call.res.val)
  \/ call.op = "__mul__" /\ Len(call.aux) = 0 /\ "c" \in DOMAIN call.res.val /\
       \E i \in 1..3 :
         Size("Vec", [<<call.args[1], call.args[2]>> \o <<call.args[1]>>
                        EXCEPT ![i] = call.res.val])
  \/ call = NoCall /\ \E m \in Mats : Transpose(m)
  \/ TransposeBack
  \/ call = NoCall /\ \E RR \in MixedRings : \E a \in RR[1], b \in RR[2] :
       \E o \in {"+", "-", "*"} : MixedModuli(o, a, b)

SpecAlgebra == InitFunctions /\ [][NextAlgebra]_vars

\* C17: the product a * b of two ModPol over (q, n) is the product of the
\* polynomials a and b (Pol.__mul__) reduced modulo X^n + 1 (Pol.__mod__),
\* as ModPolGen computes it; with q = 41, n = 4,
\* (32, 0, 17, 22) * (11, 7, 19, 1) = (39, 35, 35, 24).
NegacyclicMul ==
  (call.op = "__mul__" /\ "c" \in DOMAIN call.args[1]) =>
    LET a == call.args[1]
        b == call.args[2]
        m == Pol(a.q, <<ModInt(1, a.q)>> \o List([i \in 1..(a.n - 1) |-> ModInt(0, a.q)])
                        \o <<ModInt(1, a.q)>>)
        gen == Pol_mod(Pol_mul(Pol(a.q, a.c), Pol(b.q, b.c)), m)
    IN /\ gen.ok
       /\ Len(call.res.val.c) = a.n
       /\ Pol(a.q, call.res.val.c) = gen.val
       /\ (a.q = 41 /\ a.c = <<ModInt(32, 41), ModInt(0, 41), ModInt(17, 41), ModInt(22, 41)>>
             /\ b.c = <<ModInt(11, 41), ModInt(7, 41), ModInt(19, 41), ModInt(1, 41)>>) =>
            call.res.val.c = <<ModInt(39, 41), ModInt(35, 41), ModInt(35, 41), ModInt(24, 41)>>

\* C17 witness: the product of the example has been computed.
NegacyclicMulWitness ==
  /\ call.op = "__mul__" /\ Len(call.aux) = 0
  /\ "c" \in DOMAIN call.args[1] /\ call.args[1].q = 41
  /\ call.args[1].c = <<ModInt(32, 41), ModInt(0, 41), ModInt(17, 41), ModInt(22, 41)>>
  /\ call.args[2].c = <<ModInt(11, 41), ModInt(7, 41), ModInt(19, 41), ModInt(1, 41)>>
  /\ call.res.val.c = <<ModInt(39, 41), ModInt(35, 41), ModInt(35, 41), ModInt(24, 41)>>

\* C18: on ModInt and on ModPol of one ring, + and * are commutative and
\* associative and * distributes over +; the inner product of two Vec of
\* equal length is commutative.  With a the first operand of the last call
\* and b op c the call before it: a + (b + c) = (a + b) + c,
\* a * (b * c) = (a * b) * c, a * (b + c) = a * b + a * c.
RingLaws ==
  /\ call.op = "__add__" => call.res.val = Plus(call.args[2], call.args[1])
  /\ call.op = "__mul__" => call.res.val = Times(call.args[2], call.args[1])
  /\ call.op = "Vec.__mul__" => call.res.val = Vec_mul(call.args[2], call.args[1])
  /\ (call.op = "__add__" /\ Len(call.aux) = 1 /\ call.aux[1].op = "__add__") =>
       call.res.val = Plus(Plus(call.args[1], call.aux[1].args[1]), call.aux[1].args[2])
  /\ (call.op = "__mul__" /\ Len(call.aux) = 1 /\ call.aux[1].op = "__mul__") =>
       call.res.val = Times(Times(call.args[1], call.aux[1].args[1]), call.aux[1].args[2])
  /\ (call.op = "__mul__" /\ Len(call.aux) = 1 /\ call.aux[1].op = "__add__") =>
       call.res.val = Plus(Times(call.args[1], call.aux[1].args[1]),
                           Times(call.args[1], call.aux[1].args[2]))

\* C18 witness: a * (b + c) has been computed for three different ModPol of
\* the ring of Kyber, none of them 0.
RingLawsWitness ==
  /\ call.op = "__mul__" /\ Len(call.aux) = 1 /\ call.aux[1].op = "__add__"
  /\ "c" \in DOMAIN call.args[1] /\ call.args[1].q = Q
  /\ call.args[1] # call.aux[1].args[1] /\ call.args[1] # call.aux[1].args[2]
  /\ call.aux[1].args[1] # call.aux[1].args[2]
  /\ \A x \in {call.args[1], call.aux[1].args[1], call.aux[1].args[2]} :
       \E i \in 1..N : x.c[i].r # 0

\* C19: m.transpose() has the entry [j][i] of m at [i][j], as many lines as m
\* has columns and as many columns as m has lines, and
\* m.transpose().transpose() is m.
TransposeInvolution ==
  call.op = "Mat.transpose" =>
    LET m == call.args[1]
        t == call.res.val
    IN /\ Len(t) = Len(m[1])
       /\ \A i \in 1..Len(t) : Len(t[i]) = Len(m)
       /\ \A i \in 1..Len(t) : \A j \in 1..Len(m) : t[i][j] = m[j][i]
       /\ Len(call.aux) = 1 => t = call.aux[1]

\* C19 witness: a matrix of 2 lines and 3 columns has been transposed twice.
TransposeInvolutionWitness ==
  /\ call.op = "Mat.transpose" /\ Len(call.aux) = 1
  /\ Len(call.aux[1]) = 2 /\ Len(call.aux[1][1]) = 3
  /\ Len(call.args[1]) = 3
  /\ call.res.val = call.aux[1]

\* C20: the size of a ModInt is min(r, q - r), between 0 and q / 2; the size
\* of a ModPol is the largest size of its coefficients and the size of a Vec
\* the largest size of its elements; with q = 41, n = 4, f = (1, 1, -2, 2) and
\* g = (-2, 0, 2, -1) have size 2 and f * g has size 8.
SizeMetric ==
  call.op = "size" =>
    LET x == call.args[2]
        sz == call.res.val
        f41 == ModPol(41, 4, <<ModInt(1, 41), ModInt(1, 41), ModInt(-2, 41), ModInt(2, 41)>>)
        g41 == ModPol(41, 4, <<ModInt(-2, 41), ModInt(0, 41), ModInt(2, 41), ModInt(-1, 41)>>)
    IN /\ call.args[1] = "ModInt" =>
            /\ sz \in {x.r, x.q - x.r} /\ sz <= x.r /\ sz <= x.q - x.r
            /\ 0 <= sz /\ 2 * sz <= x.q
       /\ call.args[1] = "ModPol" =>
            /\ \A i \in 1..x.n : Min(x.c[i].r, x.q - x.c[i].r) <= sz
            /\ \E i \in 1..x.n : Min(x.c[i].r, x.q - x.c[i].r) = sz
            /\ x = f41 => sz = 2
            /\ x = g41 => sz = 2
            /\ (Len(call.aux) = 1 /\ call.aux[1].op = "__mul__"
                  /\ call.aux[1].args = <<f41, g41>>) => sz = 8
       /\ call.args[1] = "Vec" =>
            /\ \A i \in 1..Len(x) : \A j \in 1..x[i].n :
                 Min(x[i].c[j].r, x[i].q - x[i].c[j].r) <= sz
            /\ \E i \in 1..Len(x) : \E j \in 1..x[i].n :
                 Min(x[i].c[j].r, x[i].q - x[i].c[j].r) = sz

\* C20 witness: the size of f * g of the example has been computed: 8.
SizeMetricWitness ==
  /\ call.op = "size" /\ call.args[1] = "ModPol"
  /\ Len(call.aux) = 1 /\ call.aux[1].op = "__mul__"
  /\ call.aux[1].args[1].c = <<ModInt(1, 41), ModInt(1, 41), ModInt(39, 41), ModInt(2, 41)>>
  /\ call.aux[1].args[2].c = <<ModInt(39, 41), ModInt(0, 41), ModInt(2, 41), ModInt(40, 41)>>
  /\ call.res.val = 8

\* The coefficient of X^k (k from 0) of a * b modulo X^n + 1, as an integer:
\* the sum of a_i * b_j over i + j = k minus the sum over i + j = k + n.
RECURSIVE NegacyclicCoef(_, _, _, _)
NegacyclicCoef(a, b, k, i) ==
  IF i >= a.n THEN 0
  ELSE (IF i <= k THEN a.c[i + 1].r * b.c[k - i + 1].r
        ELSE 0 - a.c[i + 1].r * b.c[k + a.n - i + 1].r)
       + NegacyclicCoef(a, b, k, i + 1)

\* The integer that a (+, -, *) b reduces, for two ModInt.
IntResult(o, x, y) == CASE o = "+" -> x + y [] o = "-" -> x - y [] OTHER -> x * y

\* C21 as stated: +, - and * on two ModInt, or two ModPol, whose moduli
\* differ raise an error and return no value.
MismatchedModulusRejected ==
  call.op \in {"+", "-", "*"} => ~call.res.ok /\ call.res.val = <<>>

\* C21 amended: +, - and * on two ModInt, or two ModPol of the same n, whose
\* moduli differ raise nothing: they return the result reduced under the
\* modulus of the left operand, computed from the representatives of both
\* operands (for ModPol coefficient by coefficient, the product negacyclic),
\* and carrying the left operand's q (and n).
MismatchedModulusUnchecked ==
  call.op \in {"+", "-", "*"} =>
    LET a == call.args[1]
        b == call.args[2]
        r == call.res.val
    IN /\ call.res.ok
       /\ r.q = a.q
       /\ "c" \notin DOMAIN a =>
            r.r \in 0..(a.q - 1) /\ (r.r - IntResult(call.op, a.r, b.r)) % a.q = 0
       /\ "c" \in DOMAIN a =>
            /\ r.n = a.n /\ Len(r.c) = a.n
            /\ \A i \in 1..a.n :
                 /\ r.c[i].q = a.q /\ r.c[i].r \in 0..(a.q - 1)
                 /\ call.op # "*" =>
                      (r.c[i].r - IntResult(call.op, a.c[i].r, b.c[i].r)) % a.q = 0
                 /\ call.op = "*" =>
                      (r.c[i].r - NegacyclicCoef(a, b, i - 1, 0)) % a.q = 0

\* C21 witness: the sum of two ModPol, the left one over 41 and the right one
\* over Q, has been returned with a coefficient that the sum over Q would
\* not have.
MismatchedModulusWitness ==
  /\ call.op = "+" /\ call.res.ok
  /\ "c" \in DOMAIN call.args[1]
  /\ call.args[1].q = 41 /\ call.args[2].q = Q
  /\ \E i \in 1..4 :
       call.res.val.c[i].r # (call.args[1].c[i].r + call.args[2].c[i].r) % Q

\* ================================================================ SpecLengths
\* One KyberKEM object and one call of encrypt, decrypt, encaps_internal or
\* decaps_internal on buffers of the expected length, one byte or one
\* serialized ring element (12 * SeedLen bytes, the program's 384) shorter or
\* longer, or empty.  The operations keep nothing from one call to the next,
\* so a run makes its call in the initial state.

Buffers(len) ==
  UNION {ByteStrings(l) :
           l \in {0, len - 12 * SeedLen, len - 1, len, len + 1, len + 12 * SeedLen} \cap Nat}

NextLengths ==
  \/ call = NoCall /\ \E ek \in Buffers(EkLen(kem)), m \in Buffers(SeedLen), r \in Buffers(SeedLen) :
       PKEEncrypt(ek, m, r)
  \/ call = NoCall /\ \E dk \in Buffers(DkPkeLen(kem)), c \in Buffers(CtLen(kem)) :
       PKEDecrypt(dk, c)
  \/ call = NoCall /\ \E ek \in Buffers(EkLen(kem)), m \in Buffers(SeedLen) :
       KEMEncapsInternal(ek, m)
  \/ call = NoCall /\ \E dk \in Buffers(DkLen(kem)), c \in Buffers(CtLen(kem)) :
       KEMDecapsInternal(dk, c)

SpecLengths == Init /\ [][NextLengths]_vars

\* C22: encrypt, decrypt, encaps_internal and decaps_internal raise an error
\* and return nothing whenever a buffer has the wrong length: ek not 384k+32
\* bytes, dk_pke not 384k, the KEM's dk not 768k+96, c not 32(du*k+dv), m or r
\* not 32 (in units of SeedLen for 32).
WrongLengthRejected ==
  LET rejected == ~call.res.ok /\ call.res.val = <<>>
      len(i) == Len(call.args[i])
  IN /\ (call.op = "KyberPKE.encrypt"
            /\ (len(1) # EkLen(kem) \/ len(2) # SeedLen \/ len(3) # SeedLen)) => rejected
     /\ (call.op = "KyberPKE.decrypt"
            /\ (len(1) # DkPkeLen(kem) \/ len(2) # CtLen(kem))) => rejected
     /\ (call.op = "KyberKEM.encaps_internal"
            /\ (len(1) # EkLen(kem) \/ len(2) # SeedLen)) => rejected
     /\ (call.op = "KyberKEM.decaps_internal"
            /\ (len(1) # DkLen(kem) \/ len(2) # CtLen(kem))) => rejected

\* ================================================================ SpecConstruct
\* The construction of the object: KyberPKE(param_set) or KyberKEM(param_set)
\* on a supported or unsupported parameter set, and then, when an object was
\* built, calls of its operations: any number of decrypt calls and, after the
\* construction or any of them, any one operation.

\* Parameter sets asked for: the three supported ones, their neighbours, the
\* values of k and other sizes.
ParamSetsAsked == {0, 2, 3, 4, 128, 256, 511, 512, 513, 768, 1024, 1025, 2048}

InitConstruct ==
  /\ kem = NoObject
  /\ call = NoCall
  /\ prf = NoPRF
  /\ xof = NoXOF
  /\ ref = NoCall

\* cls(param_set) for cls KyberPKE or KyberKEM (whose __init__ builds a
\* KyberPKE and keeps it): when __init__ raises, no object is bound.
Construct(cls, param_set) ==
  /\ call' = Called(cls, <<param_set>>,
                    IF KyberPKE_init(param_set).ok THEN Ok(<<>>) ELSE KyberPKE_init(param_set),
                    <<>>)
  /\ kem' = IF KyberPKE_init(param_set).ok THEN KyberPKE_init(param_set).val ELSE NoObject
  /\ UNCHANGED <<prf, xof, ref>>

NextConstruct ==
  \/ call = NoCall /\ \E cls \in {"KyberPKE", "KyberKEM"}, ps \in ParamSetsAsked :
       Construct(cls, ps)
  \/ kem # NoObject /\ call.op \in {"KyberPKE", "KyberKEM", "KyberPKE.decrypt"} /\ Next

SpecConstruct == InitConstruct /\ [][NextConstruct]_vars

\* C23: KyberPKE(param_set) and KyberKEM(param_set) raise an error and leave
\* no object for a parameter set outside {512, 768, 1024}; for 512, 768 and
\* 1024 they succeed with (k, eta1, eta2, du, dv) = (2, 3, 2, 10, 4),
\* (3, 2, 2, 10, 4), (4, 2, 2, 11, 5), and no later operation changes the
\* parameters of the object.
ParameterSetFixed ==
  /\ [](call.op \in {"KyberPKE", "KyberKEM"} =>
          /\ call.args[1] \notin {512, 768, 1024} =>
               ~call.res.ok /\ call.res.val = <<>> /\ kem = NoObject
          /\ call.args[1] = 512 =>
               call.res.ok /\ kem = [k |-> 2, eta1 |-> 3, eta2 |-> 2, du |-> 10, dv |-> 4]
          /\ call.args[1] = 768 =>
               call.res.ok /\ kem = [k |-> 3, eta1 |-> 2, eta2 |-> 2, du |-> 10, dv |-> 4]
          /\ call.args[1] = 1024 =>
               call.res.ok /\ kem = [k |-> 4, eta1 |-> 2, eta2 |-> 2, du |-> 11, dv |-> 5])
  /\ [][kem # NoObject => kem' = kem]_vars

\* C23 witness: KyberKEM(513) has raised and left no object.
ParameterSetFixedWitness ==
  /\ call.op = "KyberKEM" /\ call.args = <<513>>
  /\ ~call.res.ok /\ call.res.err = "ValueError"
  /\ kem = NoObject

\* ================================================================ SpecSample
\* The samplers of ring elements on drawn inputs: KModPol.uni_from_seed(q, n, B)
\* and then math_prereq's ModPol.from_seed on the same arguments.  A run
\* draws its inputs once: its first call is made in the initial state.

\* Moduli asked of uni_from_seed: of 12 bits (the least, Q, the largest) or not.
SampleModuli == {17, 2048, Q, 4095, 4096}

\* Seeds absorbed: rho || byte(j) || byte(i) has SeedLen + 2 bytes.
SampleSeeds == {Pat(SeedLen + 2, p) : p \in 0..(NumPat + 3)}

\* KModPol.uni_from_seed(q, n, B); xof is the XOF object the call created.
\* Seeds of the PRFs that cbd_from_prf draws from.
CbdSeeds == {Pat(SeedLen, p) : p \in 0..(NumPat + 3)}

SampleUni(q, n, B) ==
  /\ call' = Called("KModPol.uni_from_seed", <<q, n, B>>,
                    KModPol_uni_from_seed(q, n, B).res, <<>>)
  /\ xof' = KModPol_uni_from_seed(q, n, B).xof
  /\ UNCHANGED <<prf, kem, ref>>

\* math_prereq's ModPol.from_seed on the arguments of the last call; aux keeps
\* the outcome of that call.
FromSeedSame ==
  /\ call.op = "KModPol.uni_from_seed"
  /\ call' = Called("ModPol.from_seed", call.args,
                    ModPol_from_seed(call.args[1], call.args[2], call.args[3]),
                    <<call.res>>)
  /\ UNCHANGED <<prf, xof, kem, ref>>

\* KModPol.cbd_from_prf(eta, PRF(seed)) on a new PRF, which is left behind;
\* aux keeps the counter of the PRF at entry.
SampleCbdNew(seed, eta) ==
  LET r == KModPol_cbd_from_prf(eta, PRF_init(seed))
  IN /\ call' = Called("KModPol.cbd_from_prf", <<eta>>, r.res, [b0 |-> 0])
     /\ prf' = r.prf
     /\ UNCHANGED <<xof, kem, ref>>

\* KModPol.cbd_from_prf(eta, prf) on the PRF left behind, up to MaxDraws draws.
SampleCbdNext(eta) ==
  LET r == KModPol_cbd_from_prf(eta, prf)
  IN /\ call.op = "KModPol.cbd_from_prf"
     /\ prf.b < MaxDraws
     /\ call' = Called("KModPol.cbd_from_prf", <<eta>>, r.res, [b0 |-> prf.b])
     /\ prf' = r.prf
     /\ UNCHANGED <<xof, kem, ref>>

NextSample ==
  \/ call = NoCall /\ \E q \in SampleModuli, n \in 1..N, B \in SampleSeeds : SampleUni(q, n, B)
  \/ FromSeedSame
  \/ call = NoCall /\ \E seed \in CbdSeeds, eta \in EtaSet : SampleCbdNew(seed, eta)
  \/ \E eta \in EtaSet : SampleCbdNext(eta)

SpecSample == InitFunctions /\ [][NextSample]_vars

\* The candidates of the first len bytes of the SHAKE128 stream of B, in stream
\* order: for each 3 bytes C0, C1, C2, d1 = C0 + 256 * (C1 mod 16) and then
\* d2 = (C1 div 16) + 16 * C2.
Candidates(B, len) ==
  LET st == shake_128_digest(B, len)
  IN List([t \in 1..(2 * (len \div 3)) |->
       LET o == 3 * ((t - 1) \div 2)
       IN IF t % 2 = 1 THEN st[o + 1] + 256 * (st[o + 2] % 16)
          ELSE (st[o + 2] \div 16) + 16 * st[o + 3]])

\* The candidates accepted: those below q, in order.
Accepted(cands, q) == SelectSeq(cands, LAMBDA d : d < q)

\* C26: uni_from_seed(q, n, B), for q of 12 bits, absorbs B once into a new
\* XOF and reads its stream 3 bytes at a time; its result is the first n
\* candidates below q in stream order (d1 before d2): exactly n coefficients
\* in [0, q); it stops reading at the triple that gives the n-th, and drops a
\* d2 that comes after the n-th; math_prereq's ModPol.from_seed returns the
\* same on the same input.
UniformRejection ==
  /\ (call.op = "KModPol.uni_from_seed" /\ bit_length(call.args[1]) = 12) =>
       LET q == call.args[1]
           n == call.args[2]
           cands == Candidates(call.args[3], xof.offset)
           acc == Accepted(cands, q)
       IN /\ call.res.ok
          /\ xof.ctx = call.args[3]
          /\ xof.offset % 3 = 0 /\ xof.offset > 0
          /\ Len(call.res.val.c) = n
          /\ Len(acc) \in {n, n + 1}
          /\ \A i \in 1..n : call.res.val.c[i] = [r |-> acc[i], q |-> q] /\ acc[i] \in 0..(q - 1)
          /\ Len(Accepted(SubSeq(cands, 1, Len(cands) - 2), q)) < n
          /\ Len(acc) = n + 1 => cands[Len(cands)] = acc[n + 1]
  /\ (call.op = "KModPol.uni_from_seed" /\ bit_length(call.args[1]) # 12) => ~call.res.ok
  /\ call.op = "ModPol.from_seed" => call.res = call.aux[1]

\* C26 witness: for q = Q a call has rejected a candidate, has dropped a d2
\* below q that came after the n-th coefficient, and from_seed has returned
\* the same ring element.
UniformRejectionWitness ==
  /\ call.op = "ModPol.from_seed" /\ call.res.ok /\ call.res = call.aux[1]
  /\ call.args[1] = Q /\ call.args[2] >= 3
  /\ Len(Accepted(Candidates(call.args[3], xof.offset), Q)) = call.args[2] + 1
  /\ Len(Candidates(call.args[3], xof.offset)) > call.args[2] + 1

\* Bit j (from 0) of the bytes B, the bits of each byte taken least
\* significant first.
BitAt(B, j) == (B[(j \div 8) + 1] \div (2 ^ (j % 8))) % 2

\* BitAt(B, lo) + ... + BitAt(B, lo + cnt - 1)
RECURSIVE BitSum(_, _, _)
BitSum(B, lo, cnt) == IF cnt = 0 THEN 0 ELSE BitAt(B, lo) + BitSum(B, lo + 1, cnt - 1)

\* C28: KModPol.cbd_from_prf(eta, prf) makes exactly one prf.next(eta) call
\* (the counter grows by 1 and the bytes used are those of the counter at
\* entry), gets 2 * SeedLen * eta bytes (64 * eta at full size), that is
\* 16 * SeedLen * eta bits, and returns exactly N coefficients, coefficient i
\* being the sum of bits 2*eta*i .. 2*eta*i + eta - 1 minus the sum of the next
\* eta bits, reduced mod Q; every coefficient has size at most eta.
CenteredBinomial ==
  call.op = "KModPol.cbd_from_prf" =>
    LET eta == call.args[1]
        B == shake_256_digest(prf.s \o <<call.aux.b0>>, 2 * SeedLen * eta)
    IN /\ call.res.ok
       /\ prf.b = call.aux.b0 + 1
       /\ Len(B) = 2 * SeedLen * eta
       /\ 8 * Len(B) = 2 * eta * N
       /\ call.res.val.q = Q /\ call.res.val.n = N
       /\ Len(call.res.val.c) = N
       /\ \A i \in 0..(N - 1) :
            /\ call.res.val.c[i + 1] =
                 [r |-> (BitSum(B, 2 * eta * i, eta) - BitSum(B, 2 * eta * i + eta, eta)) % Q,
                  q |-> Q]
            /\ Min(call.res.val.c[i + 1].r, Q - call.res.val.c[i + 1].r) <= eta

\* C28 witness: a later draw (counter 2 at entry) with eta = 3 has returned a
\* polynomial with a positive and a negative coefficient, one of size eta.
CenteredBinomialWitness ==
  /\ call.op = "KModPol.cbd_from_prf" /\ call.res.ok
  /\ call.args[1] = 3 /\ call.aux.b0 = 2
  /\ \E i, j, m \in 1..N :
       /\ call.res.val.c[i].r \in 1..3
       /\ call.res.val.c[j].r \in (Q - 3)..(Q - 1)
       /\ Min(call.res.val.c[m].r, Q - call.res.val.c[m].r) = 3

\* ================================================================ SpecPolMod
\* Pol.__mod__ run one loop iteration per step on polynomials f and g over
\* the same q.  call.aux holds the running remainder r, the position in the
\* method and, for stating the loop invariant, the sum quot of the terms
\* a X^n used so far (integers, lowest degree first).

\* Pol(q, c) on a list of integers.
PolOfInts(q, c) == Pol(q, List([i \in 1..Len(c) |-> ModInt(c[i], q)]))

\* Coefficient lists given to Pol: 0 (as [] and as [0, 0]), constants, monic
\* and non-monic ones, and those of test_mod and test_mul.
PolCoefs ==
  {<<>>, <<0, 0>>, <<1>>, <<5>>, <<3, 1>>, <<0, 1>>, <<4, 2>>, <<2, 0, 1>>, <<6, 3, 2>>,
   <<1, 0, 0, 0, 1>>, <<5, 0, 4, 3>>, <<0, 0, 0, 40, 1>>, <<2, 1, 6, 2, 3, 6>>,
   <<24, 19, 16, 24, 26, 25, 22>>}

PolModuli == {7, 41}

\* f % g is called.
PolModCall(q, fc, gc) ==
  /\ call' = Called("Pol.__mod__", <<PolOfInts(q, fc), PolOfInts(q, gc)>>, Ok(<<>>),
                    [r |-> PolOfInts(q, <<>>), pc |-> "start",
                     quot |-> [i \in 1..(Len(fc) + 1) |-> 0]])
  /\ NoObjectTouched

\* The two raise statements, or else r = Pol(self.q, self.c).
PolModEnter ==
  /\ call.op = "Pol.__mod__"
  /\ call.aux.pc = "start"
  /\ call' = IF ~Pol_mod_raises(call.args[1], call.args[2]).ok
             THEN [call EXCEPT !.res = Pol_mod_raises(call.args[1], call.args[2]),
                               !.aux.pc = "raised"]
             ELSE [call EXCEPT !.aux.r = Pol(call.args[1].q, call.args[1].c),
                               !.aux.pc = "loop"]
  /\ NoObjectTouched

\* One iteration of the while loop.
PolModStep ==
  /\ call.op = "Pol.__mod__"
  /\ call.aux.pc = "loop"
  /\ Pol_deg(call.aux.r) >= Pol_deg(call.args[2])
  /\ call' = [call EXCEPT
       !.aux.r = Pol_mod_step(@, call.args[2]),
       !.aux.quot[Pol_deg(call.aux.r) - Pol_deg(call.args[2]) + 1] =
          @ + call.aux.r.c[Len(call.aux.r.c)].r]
  /\ NoObjectTouched

\* The loop ends: return r.
PolModExit ==
  /\ call.op = "Pol.__mod__"
  /\ call.aux.pc = "loop"
  /\ Pol_deg(call.aux.r) < Pol_deg(call.args[2])
  /\ call' = [call EXCEPT !.res = Ok(call.aux.r), !.aux.pc = "done"]
  /\ NoObjectTouched

NextPolMod ==
  \/ call = NoCall /\ \E q \in PolModuli : \E fc, gc \in PolCoefs : PolModCall(q, fc, gc)
  \/ PolModEnter
  \/ PolModStep
  \/ PolModExit

\* The program keeps running: a step that can be taken is taken.
SpecPolMod == InitFunctions /\ [][NextPolMod]_vars /\ WF_vars(NextPolMod)

\* Coefficient of X^k of a polynomial, and of a list of integers.
PolCoefAt(f, k) == IF k < Len(f.c) THEN f.c[k + 1].r ELSE 0
IntAt(c, k) == IF k < Len(c) THEN c[k + 1] ELSE 0

\* Coefficient of X^k of (the polynomial of the integers quot) * g, from i on.
RECURSIVE ConvSum(_, _, _, _)
ConvSum(quot, g, k, i) ==
  IF i > k THEN 0 ELSE IntAt(quot, i) * PolCoefAt(g, k - i) + ConvSum(quot, g, k, i + 1)

\* f - r = quot * g, coefficient by coefficient modulo q.
IsRemainder(f, g, quot, r) ==
  \A k \in 0..(Len(f.c) + Len(g.c)) :
    (PolCoefAt(f, k) - PolCoefAt(r, k) - ConvSum(quot, g, k, 0)) % f.q = 0

\* No trailing zero coefficient; the zero polynomial is the empty list.
Normalised(f) ==
  /\ \A i \in 1..Len(f.c) : f.c[i].q = f.q /\ f.c[i].r \in 0..(f.q - 1)
  /\ Len(f.c) # 0 => f.c[Len(f.c)].r # 0

\* C30: for Pol f and g over the same q, f % g terminates; g = 0 raises
\* ZeroDivisionError and a non-monic g NotImplementedError; for monic g the
\* degree of the running remainder r strictly decreases in every loop
\* iteration, f - r stays a multiple of g, and the R returned has
\* deg(R) < deg(g) with f - R a multiple of g; every Pol is normalised.
EuclideanRemainder ==
  /\ [][(call.op = "Pol.__mod__" /\ call.aux.pc = "loop" /\ call'.aux.pc = "loop")
         => Pol_deg(call'.aux.r) < Pol_deg(call.aux.r)]_vars
  /\ []((call.op = "Pol.__mod__" /\ call.aux.pc \in {"loop", "done"}) =>
         /\ IsRemainder(call.args[1], call.args[2], call.aux.quot, call.aux.r)
         /\ Normalised(call.aux.r))
  /\ [](call.op = "Pol.__mod__" => Normalised(call.args[1]) /\ Normalised(call.args[2]))
  /\ []((call.op = "Pol.__mod__" /\ call.aux.pc = "done") =>
         /\ call.res = Ok(call.aux.r)
         /\ Pol_deg(call.res.val) < Pol_deg(call.args[2])
         /\ call.args[2].c[Len(call.args[2].c)].r = 1)
  /\ []((call.op = "Pol.__mod__" /\ call.aux.pc = "raised") =>
         call.res = IF Len(call.args[2].c) = 0 THEN Err("ZeroDivisionError")
                    ELSE Err("NotImplementedError"))
  /\ []((call.op = "Pol.__mod__" /\ call.aux.pc # "start") =>
         (call.aux.pc = "raised" <=>
            (Len(call.args[2].c) = 0 \/ call.args[2].c[Len(call.args[2].c)].r # 1)))
  /\ <>(call.op = "Pol.__mod__" /\ call.aux.pc \in {"done", "raised"})

\* C30 witness: the example of test_mod,
\* (24, 19, 16, 24, 26, 25, 22) % (1, 0, 0, 0, 1) = (39, 35, 35, 24) over 41,
\* has been returned after 3 iterations.
EuclideanRemainderWitness ==
  /\ call.op = "Pol.__mod__" /\ call.aux.pc = "done"
  /\ call.args[1] = PolOfInts(41, <<24, 19, 16, 24, 26, 25, 22>>)
  /\ call.args[2] = PolOfInts(41, <<1, 0, 0, 0, 1>>)
  /\ call.res = Ok(PolOfInts(41, <<39, 35, 35, 24>>))
  /\ call.aux.quot = <<26, 25, 22, 0, 0, 0, 0, 0>>

\* ================================================================ SpecUniLoop
\* The loop of KModPol.uni_from_seed, one iteration per step.  What SHAKE128
\* yields is not the program's to decide: the 3 bytes of each squeeze are any
\* of StreamTriples.  call.aux holds the list a and whether the loop is
\* running.  Fairness: the program keeps running (the exit is taken when it
\* can be), and the stream keeps producing candidates below q (an iteration
\* that accepts one eventually happens while the loop runs).

\* Triples by the candidates (d1, d2) they hold: (0, 0), (4095, 4095),
\* (3328, 0), (3329, 0), (0, 3329).
StreamTriples == {<<0, 0, 0>>, <<255, 255, 255>>, <<0, 13, 0>>, <<1, 13, 0>>, <<0, 16, 208>>}

InitUniLoop ==
  /\ \E n \in 1..MaxCoefs, B \in ByteStrings(SeedLen + 2) :
       /\ xof = XOF_absorb(XOF_new, B)
       /\ call = Called("KModPol.uni_from_seed", <<Q, n, B>>, Ok(<<>>),
                        [a |-> <<>>, pc |-> "loop"])
  /\ prf = NoPRF
  /\ kem = NoObject
  /\ ref = NoCall

\* Whether the 3 bytes C hold a candidate below q.
HoldsCandidate(C, q) == \E i \in 1..2 : ints_from_bytes(12, C)[i] < q

\* One iteration: C = ctx.squeeze(3), then the body of the loop.
UniIterate(C) ==
  /\ call.aux.pc = "loop"
  /\ Len(call.aux.a) < call.args[2]
  /\ xof' = XOF_squeeze(xof, 3)[2]
  /\ call' = [call EXCEPT !.aux.a = uni_body(@, call.args[1], call.args[2], C)]
  /\ UNCHANGED <<prf, kem, ref>>

\* An iteration on bytes that hold a candidate below q.
UniAccept == \E C \in StreamTriples : HoldsCandidate(C, call.args[1]) /\ UniIterate(C)

\* An iteration on bytes that hold none; the model stops following a stream
\* of such bytes at MaxOffset.
UniReject ==
  /\ xof.offset < MaxOffset
  /\ \E C \in StreamTriples : ~HoldsCandidate(C, call.args[1]) /\ UniIterate(C)

\* The loop ends: return cls(q, n, a).
UniExit ==
  /\ call.aux.pc = "loop"
  /\ Len(call.aux.a) >= call.args[2]
  /\ call' = [call EXCEPT !.aux.pc = "done",
                          !.res = IF ModPol_init_raises(call.args[1], call.args[2], call.aux.a)
                                  THEN Err("ValueError")
                                  ELSE Ok(ModPol(call.args[1], call.args[2], call.aux.a))]
  /\ UNCHANGED <<prf, xof, kem, ref>>

NextUniLoop == UniAccept \/ UniReject \/ UniExit

SpecUniLoop ==
  InitUniLoop /\ [][NextUniLoop]_vars /\ WF_vars(UniAccept) /\ WF_vars(UniExit)

\* C27: every iteration of the loop squeezes exactly 3 bytes and appends 0, 1
\* or 2 coefficients to a (none when neither candidate is below q, and then
\* the loop goes on); a never shrinks and never has more than n coefficients;
\* with a stream that keeps producing candidates below q the loop eventually
\* stops, with exactly n coefficients.
UniLoopTerminates ==
  /\ [][call'.aux.pc = "loop" =>
         /\ xof'.offset = xof.offset + 3
         /\ Len(call'.aux.a) - Len(call.aux.a) \in {0, 1, 2}
         /\ SubSeq(call'.aux.a, 1, Len(call.aux.a)) = call.aux.a]_vars
  /\ [][call'.aux.a = call.aux.a => call'.aux.pc = call.aux.pc \/ Len(call.aux.a) = call.args[2]]_vars
  /\ [](Len(call.aux.a) <= call.args[2])
  /\ [](call.aux.pc = "done" => call.res.ok /\ Len(call.res.val.c) = call.args[2])
  /\ <>(call.aux.pc = "done")

\* C27 witness: a loop for n = 3 has stopped after 5 or more iterations, 2 or
\* more of which appended nothing.
UniLoopTerminatesWitness ==
  /\ call.aux.pc = "done" /\ call.res.ok
  /\ call.args[2] = 3
  /\ xof.offset >= 15

====
